---- MODULE Spec2Model ----
(***************************************************************************)
(* Conditions Agent: the two LangGraph workflows (linear classify-and-route *)
(* graph, ReWOO planner/worker/solver graph), their node functions and the  *)
(* transform helpers they call.                                             *)
(*                                                                          *)
(* A Python dict is a function from its keys; a key the dict may lack holds *)
(* an option value: <<>> when the key is absent, <<v>> when it is present.  *)
(* A string that the code parses (an S3 path) is a sequence of characters.  *)
(***************************************************************************)
EXTENDS Integers, Sequences, FiniteSets, TLC

VARIABLES
    variant,    \* which graph runs: "linear" (graph.py) or "rewoo" (rewoo_graph.py)
    mode,       \* entry point: "invoke" (run to completion) or "stream"
    pc,         \* the node the engine runs next, "route", "END" or "aborted"
    state,      \* the graph state (AgentState / ReWOOState), key -> option value
    executed,   \* the nodes the engine has invoked so far, in order
    completed,  \* the nodes that returned a delta so far, in order
    events,     \* the events the streaming consumer has received, in order
    outcome,    \* what the caller of the entry point sees
    fn_in,      \* input of the pure function under check (function specifications)
    fn_out,     \* its result
    client,     \* ConditionsAIClient.evaluate: position, clock, poll and fetch history
    DEFAULT_PLAN_STEPS, \* the module-level plan template of rewoo_agent.py
    runs        \* the ReWOO runs in flight side by side: position, inputs and state of each

vars == <<variant, mode, pc, state, executed, completed, events, outcome, fn_in, fn_out, client, DEFAULT_PLAN_STEPS, runs>>

(***************************************************************************)
(* Bounds.                                                                 *)
(***************************************************************************)
MaxConds == 2       \* processed conditions in one evaluation output (workflows)
MaxFnConds == 3     \* processed conditions in one evaluation output (extract alone)

(***************************************************************************)
(* Option values and dict access.                                          *)
(***************************************************************************)
Absent == <<>>
Some(v) == <<v>>

\* state.get(k, default)
Get(s, k, default) == IF s[k] = Absent THEN default ELSE s[k][1]

\* k in state
Has(s, k) == s[k] # Absent

\* d.get(k) on a returned delta: an option value
DeltaGet(d, k) == IF k \in DOMAIN d THEN Some(d[k]) ELSE Absent

\* The engine's state update: each key a node returns overwrites the channel of
\* that key (StateGraph over a TypedDict without reducers); other keys are kept.
Merge(s, d) == [k \in DOMAIN s |-> IF k \in DOMAIN d THEN Some(d[k]) ELSE s[k]]

RECURSIVE SeqsUpTo(_, _)
SeqsUpTo(S, n) ==
    IF n = 0 THEN {<<>>}
    ELSE LET shorter == SeqsUpTo(S, n - 1)
         IN  shorter \cup {Append(q, x) : q \in {r \in shorter : Len(r) = n - 1}, x \in S}

(***************************************************************************)
(* Strings the code parses: S3 paths.                                      *)
(***************************************************************************)
S3Prefix == <<"s", "3", ":", "/", "/">>

HasSlash(p) == \E i \in 1..Len(p) : p[i] = "/"

FirstSlash(p) == CHOOSE i \in 1..Len(p) : p[i] = "/" /\ \A j \in 1..(i - 1) : p[j] # "/"

StartsWithS3(p) == Len(p) >= Len(S3Prefix) /\ SubSeq(p, 1, Len(S3Prefix)) = S3Prefix

\* Mutant of SplitFirst: the string is split at its last '/'.
SplitLast(p) ==
    LET last == CHOOSE i \in 1..Len(p) : p[i] = "/" /\ \A j \in (i + 1)..Len(p) : p[j] # "/"
    IN  [bucket |-> SubSeq(p, 1, last - 1), key |-> SubSeq(p, last + 1, Len(p))]

\* str.split('/', 1) of a string that holds a '/'
SplitFirst(p) ==
    [bucket |-> SubSeq(p, 1, FirstSlash(p) - 1),
     key    |-> SubSeq(p, FirstSlash(p) + 1, Len(p))]

NoPath == [ok |-> FALSE, bucket |-> <<>>, key |-> <<>>]

\* The path parsing of transform_preconditions_to_conditions_ai; ok = FALSE is
\* the ValueError.
ParseS3Path(p) ==
    IF StartsWithS3(p)
    THEN LET rest == SubSeq(p, Len(S3Prefix) + 1, Len(p))
         IN  IF HasSlash(rest)
             THEN [ok |-> TRUE, bucket |-> SplitFirst(rest).bucket, key |-> SplitFirst(rest).key]
             ELSE NoPath
    ELSE IF HasSlash(p)
         THEN [ok |-> TRUE, bucket |-> SplitFirst(p).bucket, key |-> SplitFirst(p).key]
         ELSE NoPath

\* Mutant of OutputDestination: the separator after the bucket is left out.
OutputDestinationUnseparated(bucket) == bucket \o <<"o", "r">>

\* f"{bucket}/conditions_output/result_{timestamp}_{uuid}.json"; "o" stands for
\* the directory name and "r" for the generated file name.
OutputDestination(bucket) == bucket \o <<"/", "o", "/", "r">>

\* Document paths a caller may pass.
Paths ==
    { S3Prefix \o <<"b", "/", "k">>,
      <<"b", "/", "d", "/", "k">>,
      <<"b">>,
      S3Prefix \o <<"b">> }

(***************************************************************************)
(* Collaborator outputs.                                                   *)
(***************************************************************************)
\* PreConditions API outputs: final_results.top_n and deficient_conditions.
PredictionOutputs ==
    { [compartments |-> <<>>, top_n |-> <<>>, deficient_conditions |-> <<>>],
      [compartments |-> <<"Income">>, top_n |-> <<>>,
       deficient_conditions |-> <<[condition_id |-> "cond_a"], [condition_id |-> "cond_b"]>>],
      [compartments |-> <<"Income", "Assets">>, top_n |-> <<[condition_id |-> "cond_b"]>>,
       deficient_conditions |-> <<[condition_id |-> "cond_a"], [condition_id |-> "cond_b"]>>] }

\* document_status of a processed condition: a string, or the key is missing,
\* or the key holds JSON null.
MISSING == "<missing>"
NULL == "<null>"

WorkflowStatuses == {"fulfilled", "not fulfilled", "uncertain", MISSING, NULL}

AllStatuses ==
    {"fulfilled", "Fulfilled", "FULFILLED", "not fulfilled", "not_fulfilled", "unfulfilled",
     "Not Fulfilled", "uncertain", "", MISSING, NULL}

\* analysis_metadata.result_confidence, in ten-thousandths (0.6 is 6000).
Confidences == {6000, 9000}

\* processed_conditions lists: condition_id is the position in the list.
WithIds(l) ==
    [i \in 1..Len(l) |->
        [condition_id |-> i, document_status |-> l[i].document_status,
         confidence |-> l[i].confidence]]

ProcessedLists(statusSet, n) ==
    { WithIds(l) : l \in SeqsUpTo([document_status : statusSet, confidence : Confidences], n) }

NO_DOCS == "completed_no_relevant_documents"

\* Evaluation outputs of conditions_ai_client.evaluate (the S3 result JSON).
EvaluationOutputs ==
    [processing_status : {"completed", NO_DOCS},
     processed_conditions : ProcessedLists(WorkflowStatuses, MaxConds)]

(***************************************************************************)
(* utils/transformers.py                                                   *)
(***************************************************************************)
\* Mutant of transform_preconditions_to_conditions_ai: entries numbered from 0.
transform_numbers_from_zero(cloud_output, s3_pdf_path) ==
    LET deficient == IF cloud_output.top_n # <<>> THEN cloud_output.top_n
                     ELSE cloud_output.deficient_conditions
        parsed == ParseS3Path(s3_pdf_path)
    IN  [ok |-> parsed.ok,
         conf |-> [conditions |-> [idx \in 1..Len(deficient) |->
                                      [id |-> idx - 1, name |-> deficient[idx].condition_id]],
                   s3_pdf_paths |-> <<>>,
                   output_destination |-> <<>>]]

\* Mutant of transform_preconditions_to_conditions_ai: the entries of
\* deficient_conditions follow those of top_n.
transform_mixes_lists(cloud_output, s3_pdf_path) ==
    LET deficient == cloud_output.top_n \o cloud_output.deficient_conditions
        conditions == [idx \in 1..Len(deficient) |->
                          [id |-> idx, name |-> deficient[idx].condition_id]]
        parsed == ParseS3Path(s3_pdf_path)
    IN  IF parsed.ok
        THEN [ok |-> TRUE,
              conf |-> [conditions |-> conditions,
                        s3_pdf_paths |-> <<[bucket |-> parsed.bucket, key |-> parsed.key]>>,
                        output_destination |-> OutputDestination(parsed.bucket)]]
        ELSE [ok |-> FALSE,
              conf |-> [conditions |-> <<>>, s3_pdf_paths |-> <<>>, output_destination |-> <<>>]]

\* The Airflow job payload built from a prediction output and one document
\* path: top_n when it is non-empty, deficient_conditions otherwise; entries
\* numbered from 1.  ok = FALSE is the ValueError of the path parsing.
transform_preconditions_to_conditions_ai(cloud_output, s3_pdf_path) ==
    LET deficient == IF cloud_output.top_n # <<>> THEN cloud_output.top_n
                     ELSE cloud_output.deficient_conditions
        conditions == [idx \in 1..Len(deficient) |->
                          [id |-> idx, name |-> deficient[idx].condition_id]]
        parsed == ParseS3Path(s3_pdf_path)
    IN  IF parsed.ok
        THEN [ok |-> TRUE,
              conf |-> [conditions |-> conditions,
                        s3_pdf_paths |-> <<[bucket |-> parsed.bucket, key |-> parsed.key]>>,
                        output_destination |-> OutputDestination(parsed.bucket)]]
        ELSE [ok |-> FALSE,
              conf |-> [conditions |-> <<>>, s3_pdf_paths |-> <<>>, output_destination |-> <<>>]]

\* str.lower() on the status strings of the model.
Lower(s) ==
    CASE s \in {"Fulfilled", "FULFILLED"} -> "fulfilled"
      [] s = "Not Fulfilled" -> "not fulfilled"
      [] OTHER -> s

\* cond.get('document_status', '').lower(): the string classified.  A missing
\* key gives ''; a null value has no lower() (AttributeError).
StatusRaises(cond) == cond.document_status = NULL

StatusString(cond) ==
    IF cond.document_status = MISSING THEN "" ELSE Lower(cond.document_status)

IsFulfilled(cond) == StatusString(cond) = "fulfilled"

\* The two lists of extract_fulfilled_and_not_fulfilled; raised = TRUE when the
\* loop raises, in which case no list is returned.
extract_fulfilled_and_not_fulfilled(conditions_s3_output) ==
    LET processed == conditions_s3_output.processed_conditions
    IN  IF \E i \in 1..Len(processed) : StatusRaises(processed[i])
        THEN [raised |-> TRUE, fulfilled |-> <<>>, not_fulfilled |-> <<>>]
        ELSE [raised |-> FALSE,
              fulfilled |-> SelectSeq(processed, IsFulfilled),
              not_fulfilled |-> SelectSeq(processed, LAMBDA c : ~IsFulfilled(c))]

\* Confidence tiers of format_condition_for_frontend, in ten-thousandths.
GreenAt == 8000
YellowAt == 5000

\* analysis_metadata.get('result_confidence', 0.0): a record without the
\* field is a condition whose metadata has no result_confidence.
result_confidence(condition) ==
    IF "confidence" \in DOMAIN condition THEN condition.confidence ELSE 0

\* Mutant of format_condition_for_frontend: the tier bounds are exclusive.
format_with_exclusive_tiers(condition, is_fulfilled) ==
    [condition_id |-> condition.condition_id,
     status |-> IF is_fulfilled THEN "fulfilled" ELSE "not_fulfilled",
     document_status |-> condition.document_status,
     confidence |-> result_confidence(condition),
     confidence_color |-> IF result_confidence(condition) > GreenAt THEN "green"
                          ELSE IF result_confidence(condition) > YellowAt THEN "yellow"
                          ELSE "red"]

format_condition_for_frontend(condition, is_fulfilled) ==
    [condition_id |-> condition.condition_id,
     status |-> IF is_fulfilled THEN "fulfilled" ELSE "not_fulfilled",
     document_status |-> condition.document_status,
     confidence |-> result_confidence(condition),
     confidence_color |-> IF result_confidence(condition) >= GreenAt THEN "green"
                          ELSE IF result_confidence(condition) >= YellowAt THEN "yellow"
                          ELSE "red"]

(***************************************************************************)
(* utils/guardrails.py: the confidence rule of validate_evaluations, on    *)
(* confidences in ten-thousandths.                                         *)
(***************************************************************************)
confidence_threshold == 7000

\* Mutant of LowConfidence: a confidence equal to the threshold trips the rule.
LowConfidenceInclusive(cond) == cond.confidence <= confidence_threshold

LowConfidence(cond) == cond.confidence < confidence_threshold

FormatAll(conds, is_fulfilled) ==
    [i \in 1..Len(conds) |-> format_condition_for_frontend(conds[i], is_fulfilled)]

(***************************************************************************)
(* utils/guardrails.py: GuardrailsValidator.  An evaluation is a record    *)
(* [condition_id, confidence, result, citations, reasoning, priority];     *)
(* priority is Absent for an evaluation without that attribute.  Costs are *)
(* in cents.  business_rules is the part of self.business_rules the        *)
(* validator reads: the require_citations flag of citation_required, TRUE  *)
(* when the rule or the flag is not configured.  An entry of 'issues' is a *)
(* record: "Cost $c exceeds budget $b" has no condition id, "Condition     *)
(* <id>: <validation issues>" has one; a validation issue is its text and  *)
(* the value it formats with .2f (a confidence in hundredths, a cost in    *)
(* cents), if any.                                                         *)
(***************************************************************************)
cost_budget_usd_per_execution == 500

\* evaluation.confidence < 0.85 for a high-priority evaluation
HighPriorityAt == 8500

\* Mutant of CostExceeded: a cost equal to the budget counts as exceeding it.
CostReachesBudget(cost_usd) == cost_usd >= cost_budget_usd_per_execution

CostExceeded(cost_usd) == cost_usd > cost_budget_usd_per_execution

cost_issues(cost_usd) ==
    IF CostExceeded(cost_usd)
    THEN << [condition_id |-> Absent,
             validation_issues |-> << [text |-> "Cost exceeds budget",
                                       value |-> Some(cost_usd)] >>] >>
    ELSE <<>>

_check_hallucination(evaluation, documents, business_rules) ==
    LET available_doc_ids == { documents[j].document_id : j \in 1..Len(documents) }
    IN  IF ~business_rules.require_citations THEN FALSE
        ELSE IF evaluation.result = "satisfied" /\ evaluation.citations = <<>> THEN TRUE
        ELSE \E i \in 1..Len(evaluation.citations) :
                 evaluation.citations[i] \notin available_doc_ids

_check_business_rules(evaluation) ==
    (IF /\ evaluation.priority = Some("high")
        /\ evaluation.confidence < HighPriorityAt
     THEN << [text |-> "High-priority condition has low confidence",
              value |-> Some((evaluation.confidence + 50) \div 100)] >>
     ELSE <<>>)
    \o
    (IF evaluation.result = "uncertain" /\ evaluation.reasoning = ""
     THEN << [text |-> "Uncertain result without reasoning", value |-> Absent] >>
     ELSE <<>>)

\* validation_issues of one turn of the loop of validate_evaluations
validation_issues(evaluation, documents, business_rules) ==
    (IF LowConfidence(evaluation)
     THEN << [text |-> "Low confidence",
              value |-> Some((evaluation.confidence + 50) \div 100)] >>
     ELSE <<>>)
    \o
    (IF _check_hallucination(evaluation, documents, business_rules)
     THEN << [text |-> "Potential hallucination detected", value |-> Absent] >>
     ELSE <<>>)
    \o
    _check_business_rules(evaluation)

\* Mutant of validated_evaluations: only the evaluations without issues are
\* handed back.
validated_without_flagged(evaluations, documents, business_rules) ==
    SelectSeq(evaluations,
              LAMBDA e : validation_issues(e, documents, business_rules) = <<>>)

\* validated_evaluations.append(evaluation), once per turn of the loop
validated_evaluations(evaluations, documents, business_rules) ==
    [i \in 1..Len(evaluations) |-> evaluations[i]]

validate_evaluations(evaluations, documents, cost_usd, business_rules) ==
    LET found == [i \in 1..Len(evaluations) |->
                     [condition_id |-> Some(evaluations[i].condition_id),
                      validation_issues |-> validation_issues(evaluations[i], documents,
                                                              business_rules)]]
    IN  [validated_evaluations |->
             validated_evaluations(evaluations, documents, business_rules),
         requires_human_review |->
             \E i \in 1..Len(evaluations) : found[i].validation_issues # <<>>,
         issues |->
             cost_issues(cost_usd)
             \o SelectSeq(found, LAMBDA issue : issue.validation_issues # <<>>)]

(***************************************************************************)
(* agent/nodes.py: the nodes of the linear graph.  Each operator is the    *)
(* delta the node returns; the ...Raises predicates are the exceptions     *)
(* that leave the node (a subscript on a key the state lacks).             *)
(***************************************************************************)
\* Mutant of NodeOutputs: the list is started again by every node.
NodeOutputsStartedAgain(s, node) == <<node>>

NodeOutputs(s, node) == Get(s, "node_outputs", <<>>) \o <<node>>

\* except branch of call_preconditions_node
call_preconditions_failed ==
    [error |-> "PreConditions API failed", status |-> "failed"]

\* try branch of call_preconditions_node, result being the API's answer
call_preconditions_node(s, result) ==
    [preconditions_output |-> result,
     node_outputs |-> NodeOutputs(s, "call_preconditions")]

\* state["preconditions_output"] is read before the try block
transform_output_raises(s) == ~Has(s, "preconditions_output")

transform_output_node(s) ==
    LET transformed == transform_preconditions_to_conditions_ai(
                           s["preconditions_output"][1], s["s3_pdf_path"][1])
    IN  IF transformed.ok
        THEN [transformed_input |-> [conf |-> transformed.conf],
              node_outputs |-> NodeOutputs(s, "transform_output")]
        ELSE [error |-> "Transformation failed", status |-> "failed"]

\* state["transformed_input"] is read before the try block
call_conditions_ai_raises(s) == ~Has(s, "transformed_input")

call_conditions_ai_failed ==
    [error |-> "Conditions AI failed", status |-> "failed"]

call_conditions_ai_node(s, result) ==
    [conditions_ai_output |-> result,
     node_outputs |-> NodeOutputs(s, "call_conditions_ai")]

\* state["conditions_ai_output"] is read before the try block
classify_results_raises(s) == ~Has(s, "conditions_ai_output")

\* Mutant of classify_results_node: no short-circuit for the no-relevant-documents
\* outcome.
classify_without_short_circuit(s) ==
    LET conditions_ai_output == s["conditions_ai_output"][1]
        split == extract_fulfilled_and_not_fulfilled(conditions_ai_output)
    IN  IF split.raised
        THEN [error |-> "Classification failed", status |-> "failed"]
        ELSE [fulfilled_conditions |-> split.fulfilled,
              not_fulfilled_conditions |-> split.not_fulfilled,
              requires_human_review |-> Len(split.not_fulfilled) > 0,
              auto_approved_count |-> Len(split.fulfilled),
              node_outputs |-> NodeOutputs(s, "classify_results")]

classify_results_node(s) ==
    LET conditions_ai_output == s["conditions_ai_output"][1]
        split == extract_fulfilled_and_not_fulfilled(conditions_ai_output)
    IN  IF conditions_ai_output.processing_status = NO_DOCS
        THEN [fulfilled_conditions |-> <<>>,
              not_fulfilled_conditions |-> <<>>,
              requires_human_review |-> FALSE,
              auto_approved_count |-> 0,
              node_outputs |-> NodeOutputs(s, "classify_results")]
        ELSE IF split.raised
        THEN [error |-> "Classification failed", status |-> "failed"]
        ELSE [fulfilled_conditions |-> split.fulfilled,
              not_fulfilled_conditions |-> split.not_fulfilled,
              requires_human_review |-> Len(split.not_fulfilled) > 0,
              auto_approved_count |-> Len(split.fulfilled),
              node_outputs |-> NodeOutputs(s, "classify_results")]

\* Mutant of confidence_router_node: a missing flag counts as review needed.
router_defaults_to_review(s) ==
    IF Get(s, "requires_human_review", TRUE) THEN "human_review" ELSE "auto_approve"

\* The branch label of the conditional edge after classify_results.
confidence_router_node(s) ==
    IF Get(s, "requires_human_review", FALSE) THEN "human_review" ELSE "auto_approve"

auto_approve_node(s) ==
    [node_outputs |-> NodeOutputs(s, "auto_approve")]

human_review_node(s) ==
    [node_outputs |-> NodeOutputs(s, "human_review")]

EmptyEvaluation == [processing_status |-> "", processed_conditions |-> <<>>]

store_results_node(s) ==
    LET fulfilled_conditions == Get(s, "fulfilled_conditions", <<>>)
        not_fulfilled_conditions == Get(s, "not_fulfilled_conditions", <<>>)
        conditions_ai_output == Get(s, "conditions_ai_output", EmptyEvaluation)
        all_conditions == FormatAll(fulfilled_conditions, TRUE)
                              \o FormatAll(not_fulfilled_conditions, FALSE)
        final_results ==
            IF conditions_ai_output.processing_status = NO_DOCS
            THEN [status |-> NO_DOCS,
                  summary |-> [total_conditions |-> 0, fulfilled |-> 0, not_fulfilled |-> 0,
                               auto_approved |-> 0, requires_review |-> 0,
                               no_relevant_documents |-> TRUE],
                  conditions |-> <<>>]
            ELSE [status |-> "completed",
                  summary |-> [total_conditions |-> Len(all_conditions),
                               fulfilled |-> Len(fulfilled_conditions),
                               not_fulfilled |-> Len(not_fulfilled_conditions),
                               auto_approved |-> Len(fulfilled_conditions),
                               requires_review |-> Len(not_fulfilled_conditions)],
                  conditions |-> all_conditions]
    IN  [final_results |-> final_results,
         status |-> "completed",
         node_outputs |-> NodeOutputs(s, "store_results")]

(***************************************************************************)
(* ReWOO variant: tool outputs, plans and evidence.                        *)
(*                                                                         *)
(* A tool output is a dict read with .get(key, default): the record holds, *)
(* for every key the code reads, the value .get gives (the default when    *)
(* the output lacks the key).  kind tells which tool produced it; "empty"  *)
(* is the dict {} and "string" a str, the only falsy / non-dict values.    *)
(***************************************************************************)
MaxPlanSteps == 2   \* steps in a planner response

ToolOutput(kind, p, e) ==
    [kind |-> kind,
     compartments |-> p.compartments, top_n |-> p.top_n,
     deficient_conditions |-> p.deficient_conditions,
     processing_status |-> e.processing_status,
     processed_conditions |-> e.processed_conditions]

NoPrediction == [compartments |-> <<>>, top_n |-> <<>>, deficient_conditions |-> <<>>]

FromPrediction(p) == ToolOutput("prediction", p, EmptyEvaluation)
FromEvaluation(e) == ToolOutput("evaluation", NoPrediction, e)
EmptyDict == ToolOutput("empty", NoPrediction, EmptyEvaluation)
Placeholder == ToolOutput("not_implemented", NoPrediction, EmptyEvaluation)
Skipped == ToolOutput("skipped", NoPrediction, EmptyEvaluation)
AString == ToolOutput("string", NoPrediction, EmptyEvaluation)
\* a transformed_input given in a step input: a ready job payload
Transformed == ToolOutput("transformed", NoPrediction, EmptyEvaluation)

Truthy(out) == out.kind \notin {"empty"}

\* Evaluation outputs the tools return in the ReWOO runs.
RewooEvaluationOutputs ==
    { e \in EvaluationOutputs : Len(e.processed_conditions) <= 1 }

\* Step inputs (payloads): the keys the worker and the tools read.
PayloadKeys == {"metadata", "documents", "from_step", "preconditions_output", "transformed_input"}

EmptyPayload == [k \in PayloadKeys |-> Absent]

Payload(d) == [k \in PayloadKeys |-> IF k \in DOMAIN d THEN Some(d[k]) ELSE Absent]

\* payload.setdefault(k, v)
SetDefault(payload, k, v) == IF payload[k] = Absent THEN [payload EXCEPT ![k] = Some(v)] ELSE payload

\* from_step values: a str, or an int (whose str() is text).
FromStepStr(text) == [is_int |-> FALSE, text |-> text]
FromStepInt(text) == [is_int |-> TRUE, text |-> text]

\* Caller metadata: the 'conditions' list of the validation-only scenario.
Metadatas == { [conditions |-> <<>>], [conditions |-> <<"cond_a">>] }

\* The evidence dict, in insertion order: a sequence of (key, value) pairs.
EvHas(ev, k) == \E i \in 1..Len(ev) : ev[i].key = k
EvGet(ev, k) == ev[CHOOSE i \in 1..Len(ev) : ev[i].key = k].value
EvPut(ev, k, v) ==
    IF EvHas(ev, k)
    THEN [i \in 1..Len(ev) |-> IF ev[i].key = k THEN [key |-> k, value |-> v] ELSE ev[i]]
    ELSE Append(ev, [key |-> k, value |-> v])
EvKeys(ev) == {ev[i].key : i \in 1..Len(ev)}

(***************************************************************************)
(* agent/rewoo_agent.py: planner.                                          *)
(***************************************************************************)
\* DEFAULT_PLAN_STEPS as the module defines it: the metadata slot holds {}.
PlanTemplate ==
    << [id |-> "step_preconditions",
        description |-> "Predict deficient conditions using PreConditions.",
        tool |-> "call_preconditions_api",
        input_is_dict |-> TRUE,
        input |-> Payload([metadata |-> [conditions |-> <<>>]])],
       [id |-> "step_conditions_ai",
        description |-> "Evaluate predicted conditions against uploaded documents.",
        tool |-> "call_conditions_ai_api",
        input_is_dict |-> TRUE,
        input |-> Payload([from_step |-> FromStepStr("step_preconditions")])] >>

\* The step input _build_default_plan fills in for one template step.
filled_step(step, metadata, s3_pdf_paths) ==
    [step EXCEPT !.input =
        IF step.tool = "call_preconditions_api" THEN [@ EXCEPT !["metadata"] = Some(metadata)]
        ELSE IF step.tool = "call_conditions_ai_api"
        THEN [@ EXCEPT !["documents"] = Some(s3_pdf_paths)]
        ELSE @]

\* Mutant of template_after_build: the step and its input are filled in place.
template_filled_in_place(template, metadata, s3_pdf_paths) ==
    [i \in 1..Len(template) |-> filled_step(template[i], metadata, s3_pdf_paths)]

\* What _build_default_plan leaves in DEFAULT_PLAN_STEPS: it works on
\* dict(step) and dict(step_copy.get("input", {})), so the template is as before.
template_after_build(template, metadata, s3_pdf_paths) == template

_build_default_plan(metadata, s3_pdf_paths) ==
    [summary |-> Some("Predict conditions using PreConditions then evaluate with Conditions AI."),
     steps |-> [i \in 1..Len(DEFAULT_PLAN_STEPS) |->
                   filled_step(DEFAULT_PLAN_STEPS[i], metadata, s3_pdf_paths)]]

\* f"step_{index}"
StepIdNames == <<"step_1", "step_2", "step_3", "step_4", "step_5">>

\* Entries of the 'steps' array of a planner response.  input_is_dict = FALSE:
\* the entry's 'input' is a non-empty JSON string instead of an object.
RawStep(is_dict, id, tool, description, input_is_dict, input) ==
    [is_dict |-> is_dict, id |-> id, tool |-> tool, description |-> description,
     input_is_dict |-> input_is_dict, input |-> input]

RawSteps ==
    { RawStep(TRUE, Some("p"), Some("call_preconditions_api"), "predict", TRUE, EmptyPayload),
      RawStep(TRUE, Absent, Some("call_conditions_ai_api"), "evaluate", TRUE,
              Payload([from_step |-> FromStepStr("p")])),
      RawStep(TRUE, Some("p"), Some("query_database"), "history", TRUE, EmptyPayload),
      RawStep(TRUE, Some("q"), Some("query_database"), "history by text", FALSE, EmptyPayload),
      RawStep(TRUE, Some("e"), Some("call_conditions_ai_api"), "evaluate by text", FALSE,
              EmptyPayload),
      RawStep(TRUE, Absent, Some("call_conditions_ai_api"), "evaluate, no input", TRUE,
              EmptyPayload),
      RawStep(TRUE, Some("x"), Absent, "no tool", TRUE, EmptyPayload),
      RawStep(TRUE, Some("m"), Some("send_email"), "a tool the worker does not know", TRUE,
              EmptyPayload),
      RawStep(FALSE, Absent, Absent, "", TRUE, EmptyPayload) }

\* What the planner model answers: no answer text, text that is not JSON, JSON
\* that is not an object, an object without a 'steps' list, or an object with one.
LLMResponses ==
    { [kind |-> k, summary |-> Absent, steps |-> <<>>] :
          k \in {"raise", "empty", "not_json", "not_object", "no_steps"} }
    \cup { [kind |-> "steps", summary |-> Some("llm plan"), steps |-> st] :
          st \in SeqsUpTo(RawSteps, MaxPlanSteps) }

\* Mutant of normalize_step: from_step gets no default.
normalize_step_without_defaults(step, index, metadata, s3_pdf_paths) ==
    LET tool == step.tool[1]
        step_input ==
            IF tool = "call_preconditions_api"
            THEN SetDefault(step.input, "metadata", metadata)
            ELSE IF tool = "call_conditions_ai_api"
            THEN SetDefault(step.input, "documents", s3_pdf_paths)
            ELSE step.input
    IN  [id |-> IF step.id = Absent THEN StepIdNames[index] ELSE step.id[1],
         description |-> step.description,
         tool |-> tool,
         input_is_dict |-> step.input_is_dict,
         input |-> step_input]

normalize_step(step, index, metadata, s3_pdf_paths) ==
    LET tool == step.tool[1]
        step_input ==
            IF tool = "call_preconditions_api"
            THEN SetDefault(step.input, "metadata", metadata)
            ELSE IF tool = "call_conditions_ai_api"
            THEN SetDefault(SetDefault(step.input, "documents", s3_pdf_paths),
                            "from_step", FromStepStr("step_preconditions"))
            ELSE step.input
    IN  [id |-> IF step.id = Absent THEN StepIdNames[index] ELSE step.id[1],
         description |-> step.description,
         tool |-> tool,
         input_is_dict |-> step.input_is_dict,
         input |-> step_input]

RECURSIVE normalized_steps(_, _, _, _)
normalized_steps(steps, index, metadata, s3_pdf_paths) ==
    IF index > Len(steps) THEN <<>>
    ELSE LET step == steps[index]
             rest == normalized_steps(steps, index + 1, metadata, s3_pdf_paths)
         IN  IF ~step.is_dict \/ step.tool = Absent
             THEN rest
             ELSE <<normalize_step(step, index, metadata, s3_pdf_paths)>> \o rest

\* _parse_plan_from_llm raises: the JSON value is not an object (no .get), or a
\* step of one of the two main tools has a non-dict input (no .setdefault).
parse_plan_raises(response) ==
    \/ response.kind = "not_object"
    \/ /\ response.kind = "steps"
       /\ \E i \in 1..Len(response.steps) :
             /\ response.steps[i].is_dict
             /\ response.steps[i].tool \in {Some("call_preconditions_api"),
                                           Some("call_conditions_ai_api")}
             /\ ~response.steps[i].input_is_dict

\* Mutant of _parse_plan_from_llm: a plan none of whose steps survives is
\* returned with an empty step list.
parse_keeps_empty_plan(response, metadata, s3_pdf_paths) ==
    IF response.kind # "steps" THEN Absent
    ELSE Some([summary |-> response.summary,
               steps |-> normalized_steps(response.steps, 1, metadata, s3_pdf_paths)])

\* An option value: Absent is None (fall back to the default plan).
_parse_plan_from_llm(response, metadata, s3_pdf_paths) ==
    IF response.kind # "steps" THEN Absent
    ELSE LET steps == normalized_steps(response.steps, 1, metadata, s3_pdf_paths)
         IN  IF steps = <<>> THEN Absent
             ELSE Some([summary |-> response.summary, steps |-> steps])

\* Mutant of planner_node: a failing model call is reported as a failed step.
planner_surfaces_failure(s, has_llm, response) ==
    LET metadata == Get(s, "metadata", [conditions |-> <<>>])
        s3_pdf_paths == Get(s, "s3_pdf_paths", <<>>)
    IN  [plan |-> _build_default_plan(metadata, s3_pdf_paths),
         planning_reasoning |-> "Used deterministic fallback plan.",
         stage |-> "planning_complete",
         status |-> IF has_llm /\ response.kind = "raise" THEN "failed"
                    ELSE Get(s, "status", "running")]

\* has_llm = FALSE: planner_llm is None.
planner_node(s, has_llm, response) ==
    LET metadata == Get(s, "metadata", [conditions |-> <<>>])
        s3_pdf_paths == Get(s, "s3_pdf_paths", <<>>)
        parsed == IF has_llm /\ response.kind # "raise" /\ ~parse_plan_raises(response)
                  THEN _parse_plan_from_llm(response, metadata, s3_pdf_paths)
                  ELSE Absent
    IN  [plan |-> IF parsed = Absent THEN _build_default_plan(metadata, s3_pdf_paths)
                  ELSE parsed[1],
         planning_reasoning |-> IF parsed = Absent THEN "Used deterministic fallback plan."
                                ELSE "raw_text",
         stage |-> "planning_complete",
         status |-> Get(s, "status", "running")]

(***************************************************************************)
(* agent/tools.py and the worker.                                          *)
(*                                                                         *)
(* A tool call ends in one of a set of outcomes: raised = TRUE (the call   *)
(* raises) or a result.  The collaborators decide which.                   *)
(***************************************************************************)
Raised == [raised |-> TRUE, result |-> EmptyDict]
Returned(out) == [raised |-> FALSE, result |-> out]

\* preconditions_client.predict_conditions
PredictOutcomes == {Raised} \cup {Returned(FromPrediction(p)) : p \in PredictionOutputs}

\* conditions_ai_client.evaluate
EvaluateOutcomes == {Raised} \cup {Returned(FromEvaluation(e)) : e \in RewooEvaluationOutputs}

\* The path parsing of transform_metadata_to_conditions_ai; ok = FALSE is the
\* ValueError.
parse_metadata_path(s3_path) ==
    LET rest == IF StartsWithS3(s3_path)
                THEN SubSeq(s3_path, Len(S3Prefix) + 1, Len(s3_path))
                ELSE s3_path
    IN  IF HasSlash(rest)
        THEN [ok |-> TRUE, bucket |-> SplitFirst(rest).bucket, key |-> SplitFirst(rest).key]
        ELSE NoPath

NoConf == [conditions |-> <<>>, s3_pdf_paths |-> <<>>, output_destination |-> <<>>]

\* transform_metadata_to_conditions_ai: error = "" when it returns conf, else
\* the exception it raises.  metadata.conditions is metadata.get('conditions',
\* []), so an empty list also stands for a missing key; output_destination is
\* an option value (None when absent).
transform_metadata_to_conditions_ai(metadata, s3_pdf_paths, output_destination) ==
    LET raw_conditions == metadata.conditions
        parsed_paths == [i \in 1..Len(s3_pdf_paths) |-> parse_metadata_path(s3_pdf_paths[i])]
    IN  IF raw_conditions = <<>>
        THEN [error |-> "ValueError", conf |-> NoConf]
        ELSE IF \E i \in 1..Len(parsed_paths) : ~parsed_paths[i].ok
        THEN [error |-> "ValueError", conf |-> NoConf]
        ELSE IF output_destination = Absent /\ parsed_paths = <<>>
        THEN [error |-> "IndexError", conf |-> NoConf]
        ELSE [error |-> "",
              conf |-> [conditions |-> [idx \in 1..Len(raw_conditions) |->
                                           [id |-> idx, name |-> raw_conditions[idx]]],
                        s3_pdf_paths |-> [i \in 1..Len(parsed_paths) |->
                                             [bucket |-> parsed_paths[i].bucket,
                                              key |-> parsed_paths[i].key]],
                        output_destination |->
                            IF output_destination = Absent
                            THEN OutputDestination(parsed_paths[1].bucket)
                            ELSE output_destination[1]]]

\* transform_metadata_to_conditions_ai raises (called by the tool, which gives
\* no output_destination of its own)
transform_metadata_raises(metadata, s3_pdf_paths) ==
    transform_metadata_to_conditions_ai(metadata, s3_pdf_paths, Absent).error # ""

\* Which of its options call_conditions_ai_api takes: the first of
\* transformed_input, preconditions_output, metadata that is truthy; "none" is
\* the final ValueError.
evaluation_source(payload) ==
    IF Has(payload, "transformed_input") /\ Truthy(payload["transformed_input"][1])
    THEN "transformed_input"
    ELSE IF Has(payload, "preconditions_output") /\ Truthy(payload["preconditions_output"][1])
    THEN "preconditions_output"
    ELSE IF Has(payload, "metadata")
    THEN "metadata"
    ELSE "none"

\* ConditionsAgentTools.call_conditions_ai_api
call_conditions_ai_api(payload, default_documents) ==
    LET documents == IF Get(payload, "documents", <<>>) # <<>> THEN payload["documents"][1]
                     ELSE default_documents
        source == evaluation_source(payload)
    IN  CASE source = "transformed_input" -> EvaluateOutcomes
          [] source = "preconditions_output" ->
                IF documents = <<>> THEN {Raised}
                ELSE IF ~transform_preconditions_to_conditions_ai(
                             payload["preconditions_output"][1], documents[1]).ok
                THEN {Raised}
                ELSE EvaluateOutcomes
          [] source = "metadata" ->
                IF documents = <<>> THEN {Raised}
                ELSE IF transform_metadata_raises(payload["metadata"][1], documents)
                THEN {Raised}
                ELSE EvaluateOutcomes
          [] OTHER -> {Raised}

\* f"step_{from_step}" for the from_step texts of the model
StepPrefixed(text) ==
    CASE text = "1" -> "step_1"
      [] text = "2" -> "step_2"
      [] text = "preconditions" -> "step_preconditions"
      [] OTHER -> "step_?"

\* Mutant of resolve_conditions_ai_payload: the latest evidence entry is taken
\* before the step named by from_step.
resolve_prefers_latest_evidence(step_input, evidence, s3_pdf_paths) ==
    LET dropped == IF Has(step_input, "preconditions_output")
                      /\ step_input["preconditions_output"][1].kind = "string"
                   THEN [step_input EXCEPT !["preconditions_output"] = Absent]
                   ELSE step_input
        resolved ==
            IF Has(dropped, "preconditions_output") THEN dropped
            ELSE IF evidence # <<>>
            THEN [dropped EXCEPT !["preconditions_output"] = Some(evidence[Len(evidence)].value)]
            ELSE [dropped EXCEPT !["preconditions_output"] = Some(EmptyDict)]
    IN  SetDefault(resolved, "documents", s3_pdf_paths)

\* The payload the worker hands to call_conditions_ai_api
resolve_conditions_ai_payload(step_input, evidence, s3_pdf_paths) ==
    LET dropped == IF Has(step_input, "preconditions_output")
                      /\ step_input["preconditions_output"][1].kind = "string"
                   THEN [step_input EXCEPT !["preconditions_output"] = Absent]
                   ELSE step_input
        from_step == IF Has(dropped, "from_step") THEN dropped["from_step"][1].text ELSE ""
        resolved ==
            IF Has(dropped, "preconditions_output") THEN dropped
            ELSE IF from_step # "" /\ EvHas(evidence, from_step)
            THEN [dropped EXCEPT !["preconditions_output"] = Some(EvGet(evidence, from_step))]
            ELSE IF from_step # "" /\ EvHas(evidence, StepPrefixed(from_step))
            THEN [dropped EXCEPT !["preconditions_output"] =
                                      Some(EvGet(evidence, StepPrefixed(from_step)))]
            ELSE IF evidence # <<>>
            THEN [dropped EXCEPT !["preconditions_output"] = Some(evidence[Len(evidence)].value)]
            ELSE [dropped EXCEPT !["preconditions_output"] = Some(EmptyDict)]
    IN  SetDefault(resolved, "documents", s3_pdf_paths)

\* Mutant of step_outcomes: a tool the worker does not know is answered like
\* the placeholder tools.
step_outcomes_runs_any_tool(step, evidence, s3_pdf_paths) ==
    CASE step.tool = "call_preconditions_api" -> PredictOutcomes
      [] step.tool = "call_conditions_ai_api" ->
            call_conditions_ai_api(
                resolve_conditions_ai_payload(step.input, evidence, s3_pdf_paths), s3_pdf_paths)
      [] OTHER -> {Returned(Placeholder)}

\* The outcomes of executing one plan step
step_outcomes(step, evidence, s3_pdf_paths) ==
    CASE step.tool = "call_preconditions_api" -> PredictOutcomes
      [] step.tool = "call_conditions_ai_api" ->
            call_conditions_ai_api(
                resolve_conditions_ai_payload(step.input, evidence, s3_pdf_paths), s3_pdf_paths)
      [] step.tool \in {"retrieve_s3_document", "query_database"} -> {Returned(Placeholder)}
      [] OTHER -> {Returned(Skipped)}

worker_failed(evidence, evidence_log) ==
    [evidence |-> evidence, evidence_log |-> evidence_log,
     error |-> "tool error", status |-> "failed", stage |-> "failed"]

\* dict(step.get("input") or {}) is evaluated before the try block: a step
\* whose input is a non-empty string makes worker_node raise.
WorkerRaised == [raised |-> TRUE]

\* Mutant of worker_loop: a new entry is put at the head of the evidence log.
RECURSIVE worker_logs_newest_first(_, _, _, _, _)
worker_logs_newest_first(s, steps, i, evidence, evidence_log) ==
    IF i > Len(steps)
    THEN {[evidence |-> evidence, evidence_log |-> evidence_log,
           stage |-> "worker_complete", status |-> Get(s, "status", "running")]}
    ELSE IF ~steps[i].input_is_dict
    THEN {WorkerRaised}
    ELSE UNION { IF o.raised
                 THEN {worker_failed(evidence, evidence_log)}
                 ELSE worker_logs_newest_first(s, steps, i + 1,
                          EvPut(evidence, steps[i].id, o.result),
                          << [step_id |-> steps[i].id, tool |-> steps[i].tool,
                              output |-> o.result] >> \o evidence_log)
                 : o \in step_outcomes(steps[i], evidence, Get(s, "s3_pdf_paths", <<>>)) }

\* The loop of worker_node from step i on: the set of deltas it may return
\* (WorkerRaised: it raises instead of returning).
RECURSIVE worker_loop(_, _, _, _, _)
worker_loop(s, steps, i, evidence, evidence_log) ==
    IF i > Len(steps)
    THEN {[evidence |-> evidence, evidence_log |-> evidence_log,
           stage |-> "worker_complete", status |-> Get(s, "status", "running")]}
    ELSE IF ~steps[i].input_is_dict
    THEN {WorkerRaised}
    ELSE UNION { IF o.raised
                 THEN {worker_failed(evidence, evidence_log)}
                 ELSE worker_loop(s, steps, i + 1,
                          EvPut(evidence, steps[i].id, o.result),
                          Append(evidence_log, [step_id |-> steps[i].id, tool |-> steps[i].tool,
                                                output |-> o.result]))
                 : o \in step_outcomes(steps[i], evidence, Get(s, "s3_pdf_paths", <<>>)) }

worker_node(s) ==
    LET plan == IF Has(s, "plan") THEN s["plan"][1]
                ELSE _build_default_plan(Get(s, "metadata", [conditions |-> <<>>]),
                                         Get(s, "s3_pdf_paths", <<>>))
    IN  worker_loop(s, plan.steps, 1, Get(s, "evidence", <<>>), Get(s, "evidence_log", <<>>))

(***************************************************************************)
(* Solver and store.                                                       *)
(***************************************************************************)
\* The evidence of the first call_conditions_ai_api step that has evidence
conditions_ai_result(plan, evidence) ==
    LET hits == {i \in 1..Len(plan.steps) :
                    plan.steps[i].tool = "call_conditions_ai_api"
                    /\ EvHas(evidence, plan.steps[i].id)}
    IN  IF hits = {} THEN Absent
        ELSE Some(EvGet(evidence, plan.steps[CHOOSE i \in hits : \A j \in hits : i <= j].id))

NoPlan == [summary |-> Absent, steps |-> <<>>]

\* extract_fulfilled_and_not_fulfilled is called outside any try block
solver_raises(s) ==
    LET found == conditions_ai_result(Get(s, "plan", NoPlan), Get(s, "evidence", <<>>))
    IN  found # Absent /\ extract_fulfilled_and_not_fulfilled(found[1]).raised

SolverSummaries == {"llm summary", "Conditions evaluation completed using collected evidence."}

\* Mutant of solver_node: a summary written by the model zeroes the counts.
solver_counts_follow_llm(s, solver_summary) ==
    LET found == conditions_ai_result(Get(s, "plan", NoPlan), Get(s, "evidence", <<>>))
        split == IF found = Absent \/ solver_summary = "llm summary"
                 THEN [raised |-> FALSE, fulfilled |-> <<>>, not_fulfilled |-> <<>>]
                 ELSE extract_fulfilled_and_not_fulfilled(found[1])
    IN  [solver_response |->
             [summary |-> solver_summary,
              fulfilled_count |-> Len(split.fulfilled),
              not_fulfilled_count |-> Len(split.not_fulfilled),
              conditions |-> FormatAll(split.fulfilled, TRUE)
                                 \o FormatAll(split.not_fulfilled, FALSE)],
         stage |-> "solver_complete",
         status |-> Get(s, "status", "running")]

solver_node(s, solver_summary) ==
    LET found == conditions_ai_result(Get(s, "plan", NoPlan), Get(s, "evidence", <<>>))
        split == IF found = Absent
                 THEN [raised |-> FALSE, fulfilled |-> <<>>, not_fulfilled |-> <<>>]
                 ELSE extract_fulfilled_and_not_fulfilled(found[1])
    IN  [solver_response |->
             [summary |-> solver_summary,
              fulfilled_count |-> Len(split.fulfilled),
              not_fulfilled_count |-> Len(split.not_fulfilled),
              conditions |-> FormatAll(split.fulfilled, TRUE)
                                 \o FormatAll(split.not_fulfilled, FALSE)],
         stage |-> "solver_complete",
         status |-> Get(s, "status", "running")]

NoSolverResponse ==
    [summary |-> Absent, fulfilled_count |-> Absent, not_fulfilled_count |-> Absent,
     conditions |-> Absent]

rewoo_store_results_node(s) ==
    LET solver_response ==
            IF Has(s, "solver_response")
            THEN [k \in DOMAIN NoSolverResponse |-> Some(s["solver_response"][1][k])]
            ELSE NoSolverResponse
    IN  [final_results |->
             [status |-> "completed",
              summary |-> solver_response.summary,
              fulfilled_count |-> solver_response.fulfilled_count,
              not_fulfilled_count |-> solver_response.not_fulfilled_count,
              conditions |-> solver_response.conditions,
              plan |-> Get(s, "plan", NoPlan),
              evidence |-> Get(s, "evidence", <<>>)],
         stage |-> "completed",
         status |-> "completed"]

(***************************************************************************)
(* The graphs and the engine (agent/graph.py, agent/rewoo_graph.py).       *)
(***************************************************************************)
StateKeys ==
    {"preconditions_input", "s3_pdf_path", "preconditions_output", "transformed_input",
     "conditions_ai_output", "fulfilled_conditions", "not_fulfilled_conditions",
     "final_results", "node_outputs", "requires_human_review", "auto_approved_count",
     "error", "status",
     "metadata", "s3_pdf_paths", "stage", "plan", "planning_reasoning", "evidence",
     "evidence_log", "solver_response"}

InitialState(d) == [k \in StateKeys |-> IF k \in DOMAIN d THEN Some(d[k]) ELSE Absent]

\* initial_state of run_conditions_agent and run_conditions_agent_streaming
initial_state(s3_pdf_path) ==
    InitialState([preconditions_input |-> "input",
                  s3_pdf_path |-> s3_pdf_path,
                  requires_human_review |-> FALSE,
                  auto_approved_count |-> 0,
                  node_outputs |-> <<>>,
                  status |-> "running"])

initialise_rewoo_state(metadata, s3_pdf_paths) ==
    InitialState([metadata |-> metadata,
                  s3_pdf_paths |-> s3_pdf_paths,
                  stage |-> "planning",
                  status |-> "running"])

\* Mutant of LinearEdge: the edge human_review -> store_results is left out.
LinearEdgeSkipsStore(node) ==
    CASE node = "START" -> "call_preconditions"
      [] node = "call_preconditions" -> "transform_output"
      [] node = "transform_output" -> "call_conditions_ai"
      [] node = "call_conditions_ai" -> "classify_results"
      [] node = "classify_results" -> "route"
      [] node = "auto_approve" -> "store_results"
      [] node = "human_review" -> "END"
      [] node = "store_results" -> "END"

\* add_edge / set_entry_point of the linear graph
LinearEdge(node) ==
    CASE node = "START" -> "call_preconditions"
      [] node = "call_preconditions" -> "transform_output"
      [] node = "transform_output" -> "call_conditions_ai"
      [] node = "call_conditions_ai" -> "classify_results"
      [] node = "classify_results" -> "route"
      [] node = "auto_approve" -> "store_results"
      [] node = "human_review" -> "store_results"
      [] node = "store_results" -> "END"

\* The path map of add_conditional_edges: label -> node
RouteTargets == [auto_approve |-> "auto_approve", human_review |-> "human_review"]

\* add_edge / set_entry_point of the ReWOO graph
RewooEdge(node) ==
    CASE node = "START" -> "planner"
      [] node = "planner" -> "worker"
      [] node = "worker" -> "solver"
      [] node = "solver" -> "store_results"
      [] node = "store_results" -> "END"

\* The event yielded for a completed node
linear_event(node, delta) ==
    [node |-> node, status |-> Some("completed"), stage |-> Absent,
     state_status |-> DeltaGet(delta, "status"), error |-> DeltaGet(delta, "error")]

rewoo_event(node, delta) ==
    [node |-> node, status |-> DeltaGet(delta, "status"),
     stage |-> IF "stage" \in DOMAIN delta THEN Some(delta["stage"]) ELSE Some(""),
     state_status |-> DeltaGet(delta, "status"), error |-> DeltaGet(delta, "error")]

\* Mutant of error_event: the event of the except block reads like a step event.
error_event_as_completed ==
    [node |-> "error", status |-> Some("completed"), stage |-> Absent,
     state_status |-> Absent, error |-> Some("exception")]

\* The event yielded by the except block of run_conditions_agent_streaming
error_event ==
    [node |-> "error", status |-> Some("failed"), stage |-> Absent,
     state_status |-> Absent, error |-> Some("exception")]

\* Mutant of CatchesInStream: both streaming entry points catch the exception.
CatchesInEveryStream == mode = "stream"

\* Does the entry point turn an exception of the graph into an event?
CatchesInStream == variant = "linear" /\ mode = "stream"

\* A node returned delta: the engine merges it, streams it and follows the edge.
Complete(node, delta, next) ==
    /\ state' = Merge(state, delta)
    /\ executed' = Append(executed, node)
    /\ completed' = Append(completed, node)
    /\ events' = IF mode = "stream"
                 THEN Append(events, IF variant = "linear" THEN linear_event(node, delta)
                                     ELSE rewoo_event(node, delta))
                 ELSE events
    /\ pc' = next
    /\ outcome' = IF next = "END" THEN "returned" ELSE outcome
    /\ UNCHANGED <<variant, mode, fn_in, fn_out, client, DEFAULT_PLAN_STEPS, runs>>

\* Mutant of Abort: the streaming entry point yields no error event.
AbortWithoutEvent(node) ==
    /\ executed' = Append(executed, node)
    /\ pc' = "aborted"
    /\ events' = events
    /\ outcome' = IF CatchesInStream THEN "returned" ELSE "raised"
    /\ UNCHANGED <<state, completed, variant, mode, fn_in, fn_out, client, DEFAULT_PLAN_STEPS, runs>>

\* A node raised: the exception leaves the graph run.
Abort(node) ==
    /\ executed' = Append(executed, node)
    /\ pc' = "aborted"
    /\ events' = IF CatchesInStream THEN Append(events, error_event) ELSE events
    /\ outcome' = IF CatchesInStream THEN "returned" ELSE "raised"
    /\ UNCHANGED <<state, completed, variant, mode, fn_in, fn_out, client, DEFAULT_PLAN_STEPS, runs>>

CallPreconditions ==
    /\ variant = "linear" /\ pc = "call_preconditions"
    /\ \/ \E result \in PredictionOutputs :
             Complete("call_preconditions", call_preconditions_node(state, result),
                      LinearEdge("call_preconditions"))
       \/ Complete("call_preconditions", call_preconditions_failed,
                   LinearEdge("call_preconditions"))

TransformOutput ==
    /\ variant = "linear" /\ pc = "transform_output"
    /\ \/ /\ transform_output_raises(state)
          /\ Abort("transform_output")
       \/ /\ ~transform_output_raises(state)
          /\ Complete("transform_output", transform_output_node(state),
                      LinearEdge("transform_output"))

CallConditionsAI ==
    /\ variant = "linear" /\ pc = "call_conditions_ai"
    /\ \/ /\ call_conditions_ai_raises(state)
          /\ Abort("call_conditions_ai")
       \/ /\ ~call_conditions_ai_raises(state)
          /\ \E result \in EvaluationOutputs :
                Complete("call_conditions_ai", call_conditions_ai_node(state, result),
                         LinearEdge("call_conditions_ai"))
       \/ /\ ~call_conditions_ai_raises(state)
          /\ Complete("call_conditions_ai", call_conditions_ai_failed,
                      LinearEdge("call_conditions_ai"))

ClassifyResults ==
    /\ variant = "linear" /\ pc = "classify_results"
    /\ \/ /\ classify_results_raises(state)
          /\ Abort("classify_results")
       \/ /\ ~classify_results_raises(state)
          /\ Complete("classify_results", classify_results_node(state),
                      LinearEdge("classify_results"))

\* The conditional edge: the router picks the branch; the state is not written.
Route ==
    /\ variant = "linear" /\ pc = "route"
    /\ pc' = RouteTargets[confidence_router_node(state)]
    /\ UNCHANGED <<variant, mode, state, executed, completed, events, outcome, fn_in, fn_out, client, DEFAULT_PLAN_STEPS, runs>>

AutoApprove ==
    /\ variant = "linear" /\ pc = "auto_approve"
    /\ Complete("auto_approve", auto_approve_node(state), LinearEdge("auto_approve"))

HumanReview ==
    /\ variant = "linear" /\ pc = "human_review"
    /\ Complete("human_review", human_review_node(state), LinearEdge("human_review"))

StoreResults ==
    /\ variant = "linear" /\ pc = "store_results"
    /\ Complete("store_results", store_results_node(state), LinearEdge("store_results"))

Planner ==
    /\ variant = "rewoo" /\ pc = "planner"
    /\ \E has_llm \in BOOLEAN, response \in LLMResponses :
          Complete("planner", planner_node(state, has_llm, response), RewooEdge("planner"))

Worker ==
    /\ variant = "rewoo" /\ pc = "worker"
    /\ \E delta \in worker_node(state) :
          \/ /\ delta = WorkerRaised
             /\ Abort("worker")
          \/ /\ delta # WorkerRaised
             /\ Complete("worker", delta, RewooEdge("worker"))

Solver ==
    /\ variant = "rewoo" /\ pc = "solver"
    /\ \/ /\ solver_raises(state)
          /\ Abort("solver")
       \/ /\ ~solver_raises(state)
          /\ \E solver_summary \in SolverSummaries :
                Complete("solver", solver_node(state, solver_summary), RewooEdge("solver"))

RewooStoreResults ==
    /\ variant = "rewoo" /\ pc = "store_results"
    /\ Complete("store_results", rewoo_store_results_node(state), RewooEdge("store_results"))

NoFn == <<>>

\* No evaluate call is in progress.
NoResult == [kind |-> "none", error |-> "", source |-> "", output |-> EmptyEvaluation]

ClientIdle ==
    [pc |-> "idle", now |-> 0, start |-> 0, elapsed |-> 0, poll |-> "pending",
     checks |-> <<>>, fetch_start |-> 0, attempts |-> <<>>, result |-> NoResult,
     output_destination |-> <<>>, triggers |-> 0]

Init ==
    /\ variant \in {"linear", "rewoo"}
    /\ mode \in {"invoke", "stream"}
    /\ \/ /\ variant = "linear"
          /\ \E p \in Paths : state = initial_state(p)
          /\ pc = LinearEdge("START")
       \/ /\ variant = "rewoo"
          /\ \E m \in Metadatas, ps \in {<<>>} \cup {<<p>> : p \in Paths} :
                state = initialise_rewoo_state(m, ps)
          /\ pc = RewooEdge("START")
    /\ executed = <<>>
    /\ completed = <<>>
    /\ events = <<>>
    /\ outcome = "running"
    /\ fn_in = NoFn
    /\ fn_out = NoFn
    /\ client = ClientIdle
    /\ DEFAULT_PLAN_STEPS = PlanTemplate
    /\ runs = <<>>

Next ==
    \/ CallPreconditions
    \/ TransformOutput
    \/ CallConditionsAI
    \/ ClassifyResults
    \/ Route
    \/ AutoApprove
    \/ HumanReview
    \/ StoreResults
    \/ Planner
    \/ Worker
    \/ Solver
    \/ RewooStoreResults

Spec == Init /\ [][Next]_vars

(***************************************************************************)
(* Function specification: a pure function applied to each input of a      *)
(* bounded set.  confidence_router_node is applied through the conditional *)
(* edge (Route) to states with and without requires_human_review.          *)
(***************************************************************************)
\* Evaluation outputs handed to extract_fulfilled_and_not_fulfilled alone.
ExtractInputs ==
    [processing_status : {"completed"},
     processed_conditions :
        { WithIds(l) : l \in SeqsUpTo([document_status : AllStatuses, confidence : {9000}],
                                      MaxFnConds) }]

\* States handed to confidence_router_node alone.
RouterInputs ==
    { initial_state(S3Prefix \o <<"b", "/", "k">>) } \cup
    { [initial_state(S3Prefix \o <<"b", "/", "k">>) EXCEPT !["requires_human_review"] = v] :
          v \in {Absent, Some(TRUE)} }

\* Planner configurations and model answers handed to planner_node alone.
PlannerInputs == [has_llm : BOOLEAN, response : LLMResponses]

ApplyPlanner ==
    /\ fn_in.fn = "planner" /\ variant = "rewoo" /\ pc = "planner"
    /\ Complete("planner", planner_node(state, fn_in.arg.has_llm, fn_in.arg.response),
                RewooEdge("planner"))

\* Step inputs and evidence dicts handed to the input resolution of a
\* call_conditions_ai_api step alone.
MaxEvidence == 2    \* entries of the evidence dict (input resolution alone)

EvidenceDicts ==
    { ev \in SeqsUpTo([key : {"p", "step_1", "r"},
                       value : {FromPrediction(q) : q \in PredictionOutputs}], MaxEvidence) :
          \A i, j \in 1..Len(ev) : ev[i].key = ev[j].key => i = j }

ResolveStepInputs ==
    { [k \in PayloadKeys |->
          CASE k = "transformed_input" -> ti
            [] k = "preconditions_output" -> po
            [] k = "from_step" -> fs
            [] k = "metadata" -> md
            [] OTHER -> Absent] :
      ti \in {Absent, Some(Transformed), Some(EmptyDict)},
      po \in {Absent, Some(AString), Some(EmptyDict),
              Some(FromPrediction(NoPrediction))},
      fs \in {Absent, Some(FromStepStr("p")), Some(FromStepInt("1")), Some(FromStepStr("zz"))},
      md \in {Absent, Some([conditions |-> <<"cond_a">>])} }

ApplyResolve ==
    /\ fn_in.fn = "resolve" /\ fn_out = NoFn
    /\ LET payload == resolve_conditions_ai_payload(
                          fn_in.arg.step_input, fn_in.arg.evidence, <<S3Prefix \o <<"b", "/", "k">>>>)
       IN  fn_out' = Some([payload |-> payload, source |-> evaluation_source(payload)])
    /\ UNCHANGED <<variant, mode, pc, state, executed, completed, events, outcome, fn_in, client, DEFAULT_PLAN_STEPS, runs>>

\* Prediction outputs handed to transform_preconditions_to_conditions_ai
\* alone: deficiency lists in every order, with and without a top_n list.
MaxDeficiencies == 3   \* entries of deficient_conditions
MaxTopN == 2           \* entries of final_results.top_n

TransformInputs ==
    [compartments : {<<"Income">>},
     top_n : SeqsUpTo([condition_id : {"cond_a", "cond_b"}], MaxTopN),
     deficient_conditions : SeqsUpTo([condition_id : {"cond_a", "cond_b"}], MaxDeficiencies)]

ApplyTransform ==
    /\ fn_in.fn = "transform" /\ fn_out = NoFn
    /\ fn_out' = Some(transform_preconditions_to_conditions_ai(
                          fn_in.arg.cloud_output, fn_in.arg.s3_pdf_path))
    /\ UNCHANGED <<variant, mode, pc, state, executed, completed, events, outcome, fn_in, client, DEFAULT_PLAN_STEPS, runs>>

\* Document paths handed to the path parsing of the two transforms alone.
ParsePaths ==
    Paths \cup { S3Prefix \o <<"b", "/", "d", "/", "k">>,
                 S3Prefix \o S3Prefix \o <<"b", "/", "k">>,
                 S3Prefix,
                 <<>>,
                 <<"/", "k">>,
                 <<"b", "/">> }

\* Both parsers applied to one path.
ApplyParse ==
    /\ fn_in.fn = "parse" /\ fn_out = NoFn
    /\ fn_out' = Some([preconditions |-> ParseS3Path(fn_in.arg),
                       metadata |-> parse_metadata_path(fn_in.arg)])
    /\ UNCHANGED <<variant, mode, pc, state, executed, completed, events, outcome, fn_in, client, DEFAULT_PLAN_STEPS, runs>>

\* Inputs handed to transform_metadata_to_conditions_ai alone.
MaxDocuments == 2    \* entries of s3_pdf_paths

MetadataTransformInputs ==
    [metadata : {[conditions |-> c] : c \in SeqsUpTo({"cond_a", "cond_b"}, 2)},
     s3_pdf_paths : SeqsUpTo({S3Prefix \o <<"b", "/", "k">>, <<"c", "/", "d", "/", "k">>, <<"b">>,
                              S3Prefix \o S3Prefix \o <<"b", "/", "k">>},
                             MaxDocuments),
     output_destination : {Absent, Some(<<"o", "/", "r">>)}]

ApplyTransformMetadata ==
    /\ fn_in.fn = "transform_metadata" /\ fn_out = NoFn
    /\ fn_out' = Some(transform_metadata_to_conditions_ai(
                          fn_in.arg.metadata, fn_in.arg.s3_pdf_paths,
                          fn_in.arg.output_destination))
    /\ UNCHANGED <<variant, mode, pc, state, executed, completed, events, outcome, fn_in, client, DEFAULT_PLAN_STEPS, runs>>

\* Arguments handed to validate_evaluations alone: lists of at most
\* MaxEvaluations evaluations, numbered by position, with a clean evaluation,
\* each rule tripped alone (confidence below and at the threshold, a
\* satisfied result without citations, a citation of an unknown document, an
\* uncertain result without reasoning, a high-priority evaluation) and all of
\* them tripped together; with and without the cited document; costs below,
\* at and above the budget; the citation rule switched on and off.
MaxEvaluations == 2

Evaluation(confidence, result, citations, reasoning, priority) ==
    [confidence |-> confidence, result |-> result, citations |-> citations,
     reasoning |-> reasoning, priority |-> priority]

Evaluations ==
    { Evaluation(9000, "satisfied", <<"doc_1">>, "r", Absent),
      Evaluation(6000, "satisfied", <<"doc_1">>, "r", Absent),
      Evaluation(7000, "satisfied", <<"doc_1">>, "r", Absent),
      Evaluation(9000, "satisfied", <<>>, "r", Absent),
      Evaluation(9000, "not_satisfied", <<"doc_1", "ghost">>, "r", Absent),
      Evaluation(9000, "uncertain", <<>>, "", Absent),
      Evaluation(9000, "uncertain", <<>>, "r", Some("low")),
      Evaluation(7000, "not_satisfied", <<>>, "r", Some("high")),
      Evaluation(6000, "uncertain", <<"ghost">>, "", Some("high")) }

ValidateInputs ==
    [evaluations : { [i \in 1..Len(l) |-> [condition_id |-> i] @@ l[i]] :
                         l \in SeqsUpTo(Evaluations, MaxEvaluations) },
     documents : { <<>>, << [document_id |-> "doc_1"] >> },
     cost_usd : { cost_budget_usd_per_execution - 1, cost_budget_usd_per_execution,
                  cost_budget_usd_per_execution + 1 },
     business_rules : [require_citations : BOOLEAN]]

ApplyValidate ==
    /\ fn_in.fn = "validate" /\ fn_out = NoFn
    /\ fn_out' = Some(validate_evaluations(fn_in.arg.evaluations, fn_in.arg.documents,
                                           fn_in.arg.cost_usd, fn_in.arg.business_rules))
    /\ UNCHANGED <<variant, mode, pc, state, executed, completed, events, outcome, fn_in, client, DEFAULT_PLAN_STEPS, runs>>

\* Conditions handed to format_condition_for_frontend alone: confidences on
\* and next to both tier bounds, at both ends of the scale, and a condition
\* whose metadata has no result_confidence.
FormatInputs ==
    [condition : [condition_id : {1}, document_status : {"fulfilled", "uncertain"},
                  confidence : { 0, YellowAt - 1, YellowAt, YellowAt + 1,
                                 GreenAt - 1, GreenAt, GreenAt + 1, 10000 }]
                 \cup [condition_id : {1}, document_status : {"fulfilled", "uncertain"}],
     is_fulfilled : BOOLEAN]

ApplyFormat ==
    /\ fn_in.fn = "format" /\ fn_out = NoFn
    /\ fn_out' = Some(format_condition_for_frontend(fn_in.arg.condition,
                                                    fn_in.arg.is_fulfilled))
    /\ UNCHANGED <<variant, mode, pc, state, executed, completed, events, outcome, fn_in, client, DEFAULT_PLAN_STEPS, runs>>

ApplyExtract ==
    /\ fn_in.fn = "extract" /\ fn_out = NoFn
    /\ fn_out' = Some(extract_fulfilled_and_not_fulfilled(fn_in.arg))
    /\ UNCHANGED <<variant, mode, pc, state, executed, completed, events, outcome, fn_in, client, DEFAULT_PLAN_STEPS, runs>>

InitFn ==
    /\ mode = "invoke"
    /\ client = ClientIdle
    /\ DEFAULT_PLAN_STEPS = PlanTemplate
    /\ runs = <<>>
    /\ executed = <<>>
    /\ completed = <<>>
    /\ events = <<>>
    /\ outcome = "running"
    /\ fn_out = NoFn
    /\ \/ /\ variant = "fn" /\ pc = "apply"
          /\ state = InitialState([status |-> "running"])
          /\ \/ \E e \in ExtractInputs : fn_in = [fn |-> "extract", arg |-> e]
             \/ \E si \in ResolveStepInputs, ev \in EvidenceDicts :
                   fn_in = [fn |-> "resolve", arg |-> [step_input |-> si, evidence |-> ev]]
             \/ \E o \in TransformInputs, p \in ParsePaths :
                   fn_in = [fn |-> "transform", arg |-> [cloud_output |-> o, s3_pdf_path |-> p]]
             \/ \E p \in ParsePaths : fn_in = [fn |-> "parse", arg |-> p]
             \/ \E a \in MetadataTransformInputs :
                   fn_in = [fn |-> "transform_metadata", arg |-> a]
             \/ \E a \in ValidateInputs : fn_in = [fn |-> "validate", arg |-> a]
             \/ \E a \in FormatInputs : fn_in = [fn |-> "format", arg |-> a]
       \/ /\ variant = "linear" /\ pc = "route"
          /\ state \in RouterInputs
          /\ fn_in = [fn |-> "router", arg |-> EmptyEvaluation]
       \/ /\ variant = "rewoo" /\ pc = RewooEdge("START")
          /\ \E m \in Metadatas, ps \in {<<>>} \cup {<<p>> : p \in Paths} :
                state = initialise_rewoo_state(m, ps)
          /\ \E a \in PlannerInputs : fn_in = [fn |-> "planner", arg |-> a]

NextFn ==
    \/ ApplyExtract
    \/ Route
    \/ ApplyPlanner
    \/ ApplyResolve
    \/ ApplyTransform
    \/ ApplyParse
    \/ ApplyTransformMetadata
    \/ ApplyValidate
    \/ ApplyFormat

SpecFn == InitFn /\ [][NextFn]_vars

(***************************************************************************)
(* services/conditions_ai.py: ConditionsAIClient.evaluate, which triggers  *)
(* the DAG, polls its status until it completes and fetches the result     *)
(* object.  Time is counted in ticks, one tick being the poll interval of  *)
(* the loop that is running; now is the wall clock (datetime.utcnow()).    *)
(***************************************************************************)
MaxWaitTicks == 3    \* max_wait_seconds of poll_until_complete, in poll intervals
MaxFetchTicks == 2   \* max_wait_seconds of fetch_s3_results, in poll intervals
MaxCallTicks == 1    \* longest duration of one remote call, in ticks

\* asyncio.sleep(poll_interval)
PollInterval == 1

\* 'state' of a DAG run as the status endpoint reports it
DagStates == {"success", "failed", "running", "queued", "unknown"}

\* Result objects the DAG may have written
FetchedOutputs ==
    { e \in RewooEvaluationOutputs :
          \A i \in 1..Len(e.processed_conditions) :
              e.processed_conditions[i].document_status = "fulfilled" }

\* evaluate raises error
Raise(c, error) ==
    [c EXCEPT !.pc = "done",
              !.result = [kind |-> "raised", error |-> error, source |-> "",
                          output |-> EmptyEvaluation]]

\* evaluate returns output
Return(c, source, output) ==
    [c EXCEPT !.pc = "done",
              !.result = [kind |-> "returned", error |-> "", source |-> source,
                          output |-> output]]

\* The structured result evaluate builds when the result object is missing
NoDocsResult == [processing_status |-> NO_DOCS, processed_conditions |-> <<>>]

\* Mutant of poll_iteration: the loop sleeps only after 'running' and 'queued'.
poll_without_sleep_on_unknown(c, st, dt) ==
    LET now1 == c.now + dt
        checked == [c EXCEPT !.now = now1, !.elapsed = now1 - c.start,
                             !.checks = Append(@, st)]
    IN  CASE st = "http_error" ->
                [Raise(c, "HTTPError") EXCEPT !.now = now1, !.poll = "HTTPError"]
          [] st = "success" ->
                [checked EXCEPT !.poll = "returned", !.pc = "fetch", !.fetch_start = now1]
          [] st = "failed" ->
                [Raise(checked, "Exception") EXCEPT !.poll = "Exception"]
          [] st \in {"running", "queued"} ->
                [checked EXCEPT !.now = now1 + PollInterval]
          [] OTHER -> checked

\* Mutant of poll_iteration: a DAG run reported 'failed' is triggered a second
\* time.
poll_retriggers_failed_run(c, st, dt) ==
    LET now1 == c.now + dt
        checked == [c EXCEPT !.now = now1, !.elapsed = now1 - c.start,
                             !.checks = Append(@, st)]
    IN  CASE st = "http_error" ->
                [Raise(c, "HTTPError") EXCEPT !.now = now1, !.poll = "HTTPError"]
          [] st = "success" ->
                [checked EXCEPT !.poll = "returned", !.pc = "fetch", !.fetch_start = now1]
          [] st = "failed" ->
                IF c.triggers < 2
                THEN [checked EXCEPT !.pc = "trigger"]
                ELSE [Raise(checked, "Exception") EXCEPT !.poll = "Exception"]
          [] OTHER ->
                [checked EXCEPT !.now = now1 + PollInterval]

\* One iteration of the loop of poll_until_complete: the status check takes dt
\* ticks and reports st ("http_error": check_dag_status raises).
poll_iteration(c, st, dt) ==
    LET now1 == c.now + dt
        checked == [c EXCEPT !.now = now1, !.elapsed = now1 - c.start,
                             !.checks = Append(@, st)]
    IN  CASE st = "http_error" ->
                [Raise(c, "HTTPError") EXCEPT !.now = now1, !.poll = "HTTPError"]
          [] st = "success" ->
                [checked EXCEPT !.poll = "returned", !.pc = "fetch", !.fetch_start = now1]
          [] st = "failed" ->
                [Raise(checked, "Exception") EXCEPT !.poll = "Exception"]
          [] OTHER ->
                [checked EXCEPT !.now = now1 + PollInterval]

\* Mutant of evaluate_on_fetch_error: the missing result object is an error.
evaluate_reraises_not_found(c, error) ==
    Raise(c, error)

\* What evaluate does with an exception of fetch_s3_results
evaluate_on_fetch_error(c, error) ==
    IF error = "FileNotFoundError"
    THEN Return(c, "synthetic", NoDocsResult)
    ELSE Raise(c, error)

\* The path parsing of fetch_s3_results; ok = FALSE is the ValueError.
fetch_s3_path(s3_path) ==
    LET rest == IF StartsWithS3(s3_path)
                THEN SubSeq(s3_path, Len(S3Prefix) + 1, Len(s3_path))
                ELSE s3_path
    IN  IF HasSlash(rest)
        THEN [ok |-> TRUE, bucket |-> SplitFirst(rest).bucket, key |-> SplitFirst(rest).key]
        ELSE NoPath

\* Mutant of fetch_iteration: every ClientError is retried within the budget.
fetch_retries_client_errors(c, r, dt, output) ==
    LET elapsed == c.now - c.fetch_start
        tried == [c EXCEPT !.now = c.now + dt,
                           !.attempts = Append(@, [result |-> r, elapsed |-> elapsed])]
    IN  IF ~fetch_s3_path(c.output_destination).ok
        THEN evaluate_on_fetch_error(c, "ValueError")
        ELSE CASE r = "found" -> Return(tried, "s3", output)
               [] r \in {"NoSuchKey", "ClientError"} ->
                     IF elapsed >= MaxFetchTicks
                     THEN evaluate_on_fetch_error(tried, "FileNotFoundError")
                     ELSE [tried EXCEPT !.now = c.now + dt + PollInterval]
               [] OTHER -> evaluate_on_fetch_error(tried, r)

\* fetch_s3_results: the path is parsed before the loop (a path that does not
\* parse ends the call before any attempt); then one iteration of the loop:
\* elapsed is taken before the get_object call, which takes dt ticks and ends
\* in r.
fetch_iteration(c, r, dt, output) ==
    LET elapsed == c.now - c.fetch_start
        tried == [c EXCEPT !.now = c.now + dt,
                           !.attempts = Append(@, [result |-> r, elapsed |-> elapsed])]
    IN  IF ~fetch_s3_path(c.output_destination).ok
        THEN evaluate_on_fetch_error(c, "ValueError")
        ELSE CASE r = "found" -> Return(tried, "s3", output)
               [] r = "NoSuchKey" ->
                     IF elapsed >= MaxFetchTicks
                     THEN evaluate_on_fetch_error(tried, "FileNotFoundError")
                     ELSE [tried EXCEPT !.now = c.now + dt + PollInterval]
               [] OTHER -> evaluate_on_fetch_error(tried, r)

ClientUnchanged ==
    UNCHANGED <<variant, mode, pc, state, executed, completed, events, outcome, fn_in, fn_out,
                DEFAULT_PLAN_STEPS, runs>>

TriggerDag ==
    /\ client.pc = "trigger"
    /\ \E ok \in BOOLEAN, dt \in 0..MaxCallTicks :
          client' = IF ok
                    THEN [client EXCEPT !.pc = "poll", !.now = client.now + dt,
                                        !.start = client.now + dt, !.elapsed = 0,
                                        !.triggers = @ + 1]
                    ELSE [Raise(client, "TriggerError") EXCEPT !.triggers = @ + 1]
    /\ ClientUnchanged

PollCheck ==
    /\ client.pc = "poll"
    /\ client.elapsed < MaxWaitTicks
    /\ \E st \in DagStates \cup {"http_error"}, dt \in 0..MaxCallTicks :
          client' = poll_iteration(client, st, dt)
    /\ ClientUnchanged

\* Mutant of PollTimeout: the exhausted budget is reported as a DAG failure.
PollTimeoutAsFailure ==
    /\ client.pc = "poll"
    /\ client.elapsed >= MaxWaitTicks
    /\ client' = [Raise(client, "Exception") EXCEPT !.poll = "Exception"]
    /\ ClientUnchanged

PollTimeout ==
    /\ client.pc = "poll"
    /\ client.elapsed >= MaxWaitTicks
    /\ client' = [Raise(client, "TimeoutError") EXCEPT !.poll = "TimeoutError"]
    /\ ClientUnchanged

FetchResults ==
    /\ client.pc = "fetch"
    /\ \E r \in {"found", "NoSuchKey", "ClientError", "Exception"}, dt \in 0..MaxCallTicks,
          output \in FetchedOutputs :
          client' = fetch_iteration(client, r, dt, output)
    /\ ClientUnchanged

InitClient ==
    /\ variant = "client" /\ mode = "invoke" /\ pc = "evaluate"
    /\ state = InitialState([status |-> "running"])
    /\ executed = <<>>
    /\ completed = <<>>
    /\ events = <<>>
    /\ outcome = "running"
    /\ fn_in = NoFn
    /\ fn_out = NoFn
    /\ DEFAULT_PLAN_STEPS = PlanTemplate
    /\ runs = <<>>
    /\ \E d \in {OutputDestination(<<"b">>), <<"b">>} :
          client = [ClientIdle EXCEPT !.pc = "trigger", !.output_destination = d]

NextClient ==
    \/ TriggerDag
    \/ PollCheck
    \/ PollTimeout
    \/ FetchResults

SpecClient == InitClient /\ [][NextClient]_vars

\* The workflows and the evaluate call side by side: a behaviour is a run of
\* one of the graphs or one call of evaluate.
SpecEngineAndClient == (Init \/ InitClient) /\ [][Next \/ NextClient]_vars

(***************************************************************************)
(* Several run_rewoo_agent calls on one event loop.  Each call builds its  *)
(* own state with initialise_rewoo_state; the calls share the module-level *)
(* DEFAULT_PLAN_STEPS.  A node has no await between reading and writing    *)
(* what it shares, so the runs interleave node by node.                    *)
(***************************************************************************)
InitConcurrent ==
    /\ variant = "concurrent" /\ mode = "invoke" /\ pc = "runs"
    /\ state = InitialState([status |-> "running"])
    /\ executed = <<>>
    /\ completed = <<>>
    /\ events = <<>>
    /\ outcome = "running"
    /\ fn_in = NoFn
    /\ fn_out = NoFn
    /\ client = ClientIdle
    /\ DEFAULT_PLAN_STEPS = PlanTemplate
    /\ LET \* the arguments of the calls in flight: each call has its own
           arguments == << [metadata |-> [conditions |-> <<>>],
                            s3_pdf_paths |-> << S3Prefix \o <<"b", "/", "k">> >>],
                           [metadata |-> [conditions |-> <<"cond_a">>],
                            s3_pdf_paths |-> << <<"b", "/", "d", "/", "k">> >>] >>
       IN  runs = [i \in DOMAIN arguments |->
                      [pc |-> RewooEdge("START"),
                       arguments |-> arguments[i],
                       state |-> initialise_rewoo_state(arguments[i].metadata,
                                                        arguments[i].s3_pdf_paths)]]

\* Run i executes its next node to the end.
RunStep(i) ==
    LET run == runs[i]
        returned(delta) ==
            [runs EXCEPT ![i] = [run EXCEPT !.state = Merge(run.state, delta),
                                            !.pc = RewooEdge(run.pc)]]
        raised == [runs EXCEPT ![i] = [run EXCEPT !.pc = "aborted"]]
        \* what the planner model answers to a run: nothing, or a one-step plan
        responses ==
            { r \in LLMResponses :
                 \/ r.kind = "raise"
                 \/ /\ r.kind = "steps" /\ Len(r.steps) = 1
                    /\ r.steps[1].id = Some("p")
                    /\ r.steps[1].tool = Some("call_preconditions_api") }
    IN  /\ run.pc \in {"planner", "worker", "solver", "store_results"}
        /\ CASE run.pc = "planner" ->
                  \E has_llm \in BOOLEAN, response \in responses :
                     LET delta == planner_node(run.state, has_llm, response)
                     IN  /\ runs' = returned(delta)
                         /\ DEFAULT_PLAN_STEPS' =
                                IF delta.planning_reasoning = "Used deterministic fallback plan."
                                THEN template_after_build(DEFAULT_PLAN_STEPS,
                                         Get(run.state, "metadata", [conditions |-> <<>>]),
                                         Get(run.state, "s3_pdf_paths", <<>>))
                                ELSE DEFAULT_PLAN_STEPS
             [] run.pc = "worker" ->
                  /\ \E delta \in worker_node(run.state) :
                        runs' = IF delta = WorkerRaised THEN raised ELSE returned(delta)
                  /\ UNCHANGED DEFAULT_PLAN_STEPS
             [] run.pc = "solver" ->
                  /\ IF solver_raises(run.state)
                     THEN runs' = raised
                     ELSE \E solver_summary \in SolverSummaries :
                             runs' = returned(solver_node(run.state, solver_summary))
                  /\ UNCHANGED DEFAULT_PLAN_STEPS
             [] run.pc = "store_results" ->
                  /\ runs' = returned(rewoo_store_results_node(run.state))
                  /\ UNCHANGED DEFAULT_PLAN_STEPS
        /\ UNCHANGED <<variant, mode, pc, state, executed, completed, events, outcome,
                       fn_in, fn_out, client>>

SpecConcurrent == InitConcurrent /\ [][\E i \in DOMAIN runs : RunStep(i)]_vars

(***************************************************************************)
(* Properties.                                                             *)
(***************************************************************************)
IsPrefix(a, b) == Len(a) <= Len(b) /\ SubSeq(b, 1, Len(a)) = a

EventNodes(evs) == [i \in 1..Len(evs) |-> evs[i].node]

Nodes(sq) == {sq[i] : i \in 1..Len(sq)}

StatusIs(v) == state["status"] = Some(v)

\* C1: once a step has returned a delta with status 'failed' and an error, no
\* later step of the graph is executed (runs to its return) in that run.
C1_FailedDeltaHalts ==
    [][(StatusIs("failed") /\ Has(state, "error")) => completed' = completed]_vars

\* C2: status only moves from 'running' to 'completed', 'failed' or
\* 'needs_review', and once it is 'failed' it never changes again in the run.
C2_FailedIsTerminal ==
    [][/\ state'["status"] # state["status"] =>
            (StatusIs("running")
             /\ state'["status"] \in {Some("completed"), Some("failed"), Some("needs_review")})
       /\ StatusIs("failed") => state'["status"] = Some("failed")]_vars

\* The evaluation output of a linear run, once call_conditions_ai has stored it
Evaluated == variant = "linear" /\ Has(state, "conditions_ai_output")
Processed == state["conditions_ai_output"][1].processed_conditions
NoDocs == state["conditions_ai_output"][1].processing_status = NO_DOCS
AllFulfilled == \A i \in 1..Len(Processed) : Processed[i].document_status = "fulfilled"

\* C3: in a linear run whose prediction and evaluation succeed, without the
\* no-relevant-documents outcome: if every processed condition is 'fulfilled',
\* classify sets requires_human_review false, the run executes auto_approve and
\* never human_review and ends 'completed'; otherwise it executes human_review
\* and never auto_approve and ends with requires_human_review true.
C3_RouteByClassification ==
    (Evaluated /\ ~NoDocs) =>
        /\ AllFulfilled =>
              /\ "classify_results" \in Nodes(completed) =>
                    state["requires_human_review"] = Some(FALSE)
              /\ "human_review" \notin Nodes(executed)
              /\ pc = "END" => ("auto_approve" \in Nodes(executed) /\ StatusIs("completed"))
        /\ ~AllFulfilled =>
              /\ "auto_approve" \notin Nodes(executed)
              /\ pc = "END" => /\ "human_review" \in Nodes(executed)
                               /\ state["requires_human_review"] = Some(TRUE)

\* C4: a run in which an evaluated condition trips a guardrail rule (a
\* 'fulfilled' condition with confidence below the threshold) does not fail,
\* runs to completion and ends with requires_human_review true, never
\* auto-approved.
C4_GuardrailForcesReview ==
    (Evaluated /\ ~NoDocs
        /\ \E i \in 1..Len(Processed) :
              Processed[i].document_status = "fulfilled" /\ LowConfidence(Processed[i]))
    => /\ ~StatusIs("failed")
       /\ "auto_approve" \notin Nodes(executed)
       /\ pc = "END" => state["requires_human_review"] = Some(TRUE)

\* C5: a linear run that ends without failure has final status 'needs_review'
\* when requires_human_review is true and 'completed' when it is false.
C5_FinalStatusFollowsReview ==
    (variant = "linear" /\ pc = "END" /\ ~StatusIs("failed")) =>
        IF state["requires_human_review"] = Some(TRUE)
        THEN StatusIs("needs_review")
        ELSE StatusIs("completed")

\* The two step orders of the linear graph
LinearSteps(branch) ==
    <<"call_preconditions", "transform_output", "call_conditions_ai", "classify_results",
      branch, "store_results">>

LinearOrders == {LinearSteps("auto_approve"), LinearSteps("human_review")}

\* C6: a linear run executes call_preconditions, transform_output,
\* call_conditions_ai, classify_results, exactly one of auto_approve and
\* human_review, store_results, in this order and each at most once (at every
\* moment the steps executed are a prefix of this order, all of it when the run
\* ends); a step starts only after its predecessor has returned.
C6_LinearOrder ==
    variant = "linear" =>
        /\ \E order \in LinearOrders : IsPrefix(executed, order)
        /\ pc = "END" => executed \in LinearOrders
        /\ IsPrefix(completed, executed)
        /\ Len(executed) - Len(completed) <= 1
        /\ Len(executed) > Len(completed) => pc = "aborted"

C6_Witness ==
    variant = "linear" /\ pc = "END" /\ executed = LinearSteps("human_review")

\* C7: confidence_router_node returns 'human_review' exactly when
\* requires_human_review is true in the state and 'auto_approve' otherwise, also
\* when the key is absent; the label is one of the two out-edges of
\* classify_results; the state is left as it was.
C7_Router ==
    [][pc = "route" =>
          /\ state' = state
          /\ pc' = IF state["requires_human_review"] = Some(TRUE)
                   THEN RouteTargets.human_review ELSE RouteTargets.auto_approve]_vars

C7_Witness ==
    pc = "auto_approve" /\ state["requires_human_review"] = Absent

\* C8: for every evaluation output extract_fulfilled_and_not_fulfilled returns
\* two lists that partition the processed conditions in input order: fulfilled
\* holds exactly the conditions whose status is 'fulfilled' ignoring case, and
\* every other status (synonyms, unknown, empty, missing) is in not-fulfilled.
C8_Partition ==
    (fn_in.fn = "extract" /\ fn_out # NoFn) =>
        LET conds == fn_in.arg.processed_conditions
            out == fn_out[1]
            isF(c) == /\ c.document_status \notin {MISSING, NULL}
                      /\ c.document_status \in {"fulfilled", "Fulfilled", "FULFILLED"}
        IN  /\ ~out.raised
            /\ Len(out.fulfilled) + Len(out.not_fulfilled) = Len(conds)
            /\ out.fulfilled = SelectSeq(conds, isF)
            /\ out.not_fulfilled = SelectSeq(conds, LAMBDA c : ~isF(c))

\* C9: when the evaluation output has processing_status
\* 'completed_no_relevant_documents', classify_results yields empty fulfilled
\* and not-fulfilled lists and requires_human_review false whatever
\* processed_conditions holds; the run routes to auto_approve and the summary of
\* store_results has total_conditions 0 and no_relevant_documents true.
C9_NoRelevantDocuments ==
    (Evaluated /\ NoDocs) =>
        /\ "classify_results" \in Nodes(completed) =>
              /\ state["fulfilled_conditions"] = Some(<<>>)
              /\ state["not_fulfilled_conditions"] = Some(<<>>)
              /\ state["requires_human_review"] = Some(FALSE)
              /\ ~StatusIs("failed")
        /\ "human_review" \notin Nodes(executed)
        /\ pc = "END" =>
              /\ "auto_approve" \in Nodes(completed)
              /\ state["final_results"][1].summary.total_conditions = 0
              /\ state["final_results"][1].summary.no_relevant_documents = TRUE
              /\ state["final_results"][1].conditions = <<>>

C9_Witness ==
    /\ Evaluated /\ NoDocs /\ pc = "END"
    /\ \E i \in 1..Len(Processed) : Processed[i].document_status = "not fulfilled"

\* C10 as stated: in streaming mode the consumer receives exactly one event per
\* executed step, in execution order, and no other event.
C10_OneEventPerStep ==
    mode = "stream" => EventNodes(events) = completed

\* C10 amended: in streaming mode the consumer receives exactly one event per
\* step that returned, in execution order; the only other event is, in the
\* linear variant, one last event with node 'error' and status 'failed' when a
\* step raised.  A step that raises in the ReWOO variant yields no event.
C10_StepEventsThenError ==
    mode = "stream" =>
        IF variant = "linear" /\ pc = "aborted"
        THEN /\ Len(events) = Len(completed) + 1
             /\ EventNodes(SubSeq(events, 1, Len(completed))) = completed
             /\ events[Len(events)].node = "error"
             /\ events[Len(events)].status = Some("failed")
        ELSE EventNodes(events) = completed

C10_Witness ==
    /\ mode = "stream" /\ variant = "linear" /\ pc = "aborted"
    /\ Len(completed) >= 1 /\ events[Len(events)] = error_event

\* C11 as stated: an exception that escapes a step aborts the run and is raised
\* to the caller of the entry point, in run-to-completion and streaming mode
\* alike.
C11_EscapeIsRaised ==
    pc = "aborted" => outcome = "raised"

\* C11 amended: an exception that escapes a step aborts the run (no later step
\* runs); it is raised to the caller by both run-to-completion entry points and
\* by the ReWOO streaming entry point, while the linear streaming entry point
\* catches it, yields one last 'error' event and ends without raising.
C11_EscapeAborts ==
    /\ pc = "aborted" =>
          /\ Len(executed) = Len(completed) + 1
          /\ IF variant = "linear" /\ mode = "stream"
             THEN outcome = "returned" /\ events # <<>> /\ events[Len(events)] = error_event
             ELSE outcome = "raised"
    /\ outcome = "raised" => pc = "aborted"

C11_Witness ==
    pc = "aborted" /\ variant = "rewoo" /\ mode = "stream" /\ outcome = "raised"

\* The worker has returned its failed delta (no later node writes stage 'failed')
WorkerFailed == variant = "rewoo" /\ state["stage"] = Some("failed")

WorkerPlan == state["plan"][1].steps
WorkerEvidence == Get(state, "evidence", <<>>)
WorkerLog == Get(state, "evidence_log", <<>>)

\* The evidence dict after the first n entries of the log: for each step id the
\* output of the last of these entries with that id.
LastOutput(log, n, id) ==
    log[CHOOSE i \in 1..n : log[i].step_id = id /\ \A j \in (i + 1)..n : log[j].step_id # id].output

RecordedBy(ev, log, n) ==
    /\ \A i \in 1..n : EvHas(ev, log[i].step_id)
    /\ \A j \in 1..Len(ev) :
          /\ \E i \in 1..n : log[i].step_id = ev[j].key
          /\ ev[j].value = LastOutput(log, n, ev[j].key)
          /\ \A l \in 1..Len(ev) : ev[l].key = ev[j].key => l = j

\* The evidence dict the worker holds after the first n entries of the log
RECURSIVE EvidenceAfter(_, _)
EvidenceAfter(log, n) ==
    IF n = 0 THEN <<>>
    ELSE EvPut(EvidenceAfter(log, n - 1), log[n].step_id, log[n].output)

\* The part of C12 about a raising tool call: when the worker has returned its
\* failed delta, the log holds one entry per step before the failing step k, in
\* order, each an output that step can return on the evidence before it, the
\* evidence is what these entries recorded, and step k can raise on it.
PartialEvidenceKept ==
    WorkerFailed =>
        LET k == Len(WorkerLog) + 1
            paths == Get(state, "s3_pdf_paths", <<>>)
        IN  /\ StatusIs("failed")
            /\ Has(state, "error")
            /\ k <= Len(WorkerPlan)
            /\ RecordedBy(WorkerEvidence, WorkerLog, k - 1)
            /\ \A i \in 1..(k - 1) :
                  /\ WorkerLog[i].step_id = WorkerPlan[i].id
                  /\ WorkerLog[i].tool = WorkerPlan[i].tool
                  /\ Returned(WorkerLog[i].output)
                        \in step_outcomes(WorkerPlan[i], EvidenceAfter(WorkerLog, i - 1), paths)
            /\ Raised \in step_outcomes(WorkerPlan[k], EvidenceAfter(WorkerLog, k - 1), paths)

\* C12: if executing plan step k in worker_node raises, no step after k is
\* executed, the worker returns status 'failed' with the error (the exception
\* does not leave worker_node), and the evidence and the evidence log hold
\* exactly the outputs of the steps before k.
C12_StepErrorReturnsPartialEvidence ==
    /\ ~(pc = "aborted" /\ executed # <<>> /\ executed[Len(executed)] = "worker")
    /\ PartialEvidenceKept

\* The planner has been applied to the input held in fn_in
Planned == fn_in.fn = "planner" /\ pc = RewooEdge("planner")

PlannedPlan == state["plan"][1]

\* No step of the answer survives normalization: each is not an object or
\* names no tool.
NoStepSurvives(response) ==
    \A i \in 1..Len(response.steps) :
        ~response.steps[i].is_dict \/ response.steps[i].tool = Absent

\* C13: whenever the planner has no language model, the model call fails, the
\* response is not JSON (or is empty), the JSON has no steps list, or no step
\* survives normalization, planner_node returns the deterministic default plan:
\* exactly two steps, a call_preconditions_api step followed by a
\* call_conditions_ai_api step whose from_step names the first step's id, with
\* a non-empty summary.
C13_FallbackPlan ==
    Planned =>
        LET a == fn_in.arg
            fallback == \/ ~a.has_llm
                        \/ a.response.kind \in {"raise", "empty", "not_json", "not_object", "no_steps"}
                        \/ a.response.kind = "steps" /\ NoStepSurvives(a.response)
        IN  fallback =>
              /\ Len(PlannedPlan.steps) = 2
              /\ PlannedPlan.steps[1].tool = "call_preconditions_api"
              /\ PlannedPlan.steps[2].tool = "call_conditions_ai_api"
              /\ PlannedPlan.steps[2].input["from_step"]
                    = Some(FromStepStr(PlannedPlan.steps[1].id))
              /\ PlannedPlan.steps[1].input["metadata"] = state["metadata"]
              /\ PlannedPlan.steps[2].input["documents"] = state["s3_pdf_paths"]
              /\ PlannedPlan.summary # Absent
              /\ PlannedPlan.summary[1] # ""
              /\ state["planning_reasoning"] = Some("Used deterministic fallback plan.")

C13_Witness ==
    /\ Planned /\ fn_in.arg.has_llm /\ fn_in.arg.response.kind = "steps"
    /\ Len(fn_in.arg.response.steps) = 2 /\ NoStepSurvives(fn_in.arg.response)
    /\ Len(PlannedPlan.steps) = 2

\* C14: for every language-model response (any text, any JSON value, or an
\* exception from the call) planner_node neither raises nor returns an error
\* or a 'failed' status, and the plan it returns has at least one step.
C14_PlannerNeverFails ==
    (fn_in.fn = "planner" /\ fn_in.arg.has_llm) =>
        /\ pc # "aborted" /\ outcome # "raised"
        /\ Planned =>
              /\ ~Has(state, "error")
              /\ StatusIs("running")
              /\ Has(state, "plan")
              /\ Len(PlannedPlan.steps) >= 1
              /\ completed = <<"planner">>

C14_Witness ==
    /\ Planned /\ fn_in.arg.has_llm /\ fn_in.arg.response.kind = "steps"
    /\ parse_plan_raises(fn_in.arg.response)
    /\ Len(PlannedPlan.steps) = 2

\* The input resolution has been applied to the step input held in fn_in
Resolved == fn_in.fn = "resolve" /\ fn_out # NoFn

\* The preconditions_output the claim's chain selects for a step input and an
\* evidence dict: the explicit non-string one, else the evidence of the step
\* from_step names (as text, then with the 'step_' prefix), else the last
\* evidence entry, else the empty dict.
ChainChoice(si, ev) ==
    LET po == si["preconditions_output"]
        text == IF si["from_step"] = Absent THEN "" ELSE si["from_step"][1].text
        prefixed == IF text = "1" THEN "step_1" ELSE "step_?"
    IN  IF po # Absent /\ po[1].kind # "string" THEN po[1]
        ELSE IF text # "" /\ \E i \in 1..Len(ev) : ev[i].key = text
        THEN ev[CHOOSE i \in 1..Len(ev) : ev[i].key = text].value
        ELSE IF text # "" /\ \E i \in 1..Len(ev) : ev[i].key = prefixed
        THEN ev[CHOOSE i \in 1..Len(ev) : ev[i].key = prefixed].value
        ELSE IF Len(ev) > 0 THEN ev[Len(ev)].value
        ELSE EmptyDict

GivenTransformed(si) ==
    si["transformed_input"] # Absent /\ si["transformed_input"][1].kind # "empty"

\* C15 as stated: the evaluation input of a call_conditions_ai_api step is the
\* explicit transformed_input, else the preconditions_output the chain selects
\* (explicit, from_step evidence, latest evidence, empty payload); no other
\* source is used.
C15_InputPriority ==
    Resolved =>
        LET si == fn_in.arg.step_input
            out == fn_out[1]
        IN  /\ out.payload["preconditions_output"] = Some(ChainChoice(si, fn_in.arg.evidence))
            /\ IF GivenTransformed(si) THEN out.source = "transformed_input"
               ELSE out.source \in {"preconditions_output", "none"}
            /\ out.source = "none" => ChainChoice(si, fn_in.arg.evidence) = EmptyDict

\* C15 amended: as stated, and when neither a transformed_input is given nor
\* the selected preconditions_output is non-empty, the evaluation input is built
\* from the metadata of the step input if it has one, and otherwise the tool
\* raises (no evaluation takes place).
C15_InputPriorityThenMetadata ==
    Resolved =>
        LET si == fn_in.arg.step_input
            out == fn_out[1]
            chosen == ChainChoice(si, fn_in.arg.evidence)
        IN  /\ out.payload["preconditions_output"] = Some(chosen)
            /\ out.payload["transformed_input"] = si["transformed_input"]
            /\ out.payload["metadata"] = si["metadata"]
            /\ out.source = IF GivenTransformed(si) THEN "transformed_input"
                            ELSE IF chosen # EmptyDict THEN "preconditions_output"
                            ELSE IF si["metadata"] # Absent THEN "metadata"
                            ELSE "none"

C15_Witness ==
    /\ Resolved /\ fn_out[1].source = "preconditions_output"
    /\ fn_in.arg.step_input["preconditions_output"] = Absent
    /\ fn_in.arg.step_input["from_step"] = Some(FromStepInt("1"))
    /\ Len(fn_in.arg.evidence) = 2 /\ fn_in.arg.evidence[1].key = "step_1"
    /\ fn_in.arg.evidence[1].value # fn_in.arg.evidence[2].value

\* The processed conditions of the evidence entry of the evaluate-tool step of
\* a ReWOO state, none when there is no such entry
EvaluatedConditions(s) ==
    LET found == conditions_ai_result(Get(s, "plan", NoPlan), Get(s, "evidence", <<>>))
    IN  IF found = Absent THEN <<>> ELSE found[1].processed_conditions

FulfilledStatus(c) ==
    c.document_status \in {"fulfilled", "Fulfilled", "FULFILLED"}

\* C16: whatever the solver model answers (no model, a failing call, any
\* text), a solver run that returns yields fulfilled_count, not_fulfilled_count
\* and a condition list that are determined by plan and evidence alone: the
\* classification of the evidence entry of the evaluate-tool step, zero counts
\* and an empty list when there is none.  Two runs over the same plan and
\* evidence therefore agree on them.
C16_CountsFromEvidence ==
    [][(variant = "rewoo" /\ pc = "solver" /\ pc' = RewooEdge("solver")) =>
          LET conds == EvaluatedConditions(state)
              r == state'["solver_response"][1]
              nf == Cardinality({i \in 1..Len(conds) : FulfilledStatus(conds[i])})
          IN  /\ r.fulfilled_count = nf
              /\ r.not_fulfilled_count = Len(conds) - nf
              /\ Len(r.conditions) = Len(conds)
              /\ \A j \in 1..Len(r.conditions) :
                    /\ r.conditions[j].status = IF j <= nf THEN "fulfilled" ELSE "not_fulfilled"
                    /\ \E i \in 1..Len(conds) :
                          /\ conds[i].condition_id = r.conditions[j].condition_id
                          /\ FulfilledStatus(conds[i]) <=> j <= nf
              /\ state'["plan"] = state["plan"]
              /\ state'["evidence"] = state["evidence"]]_vars

C16_Witness ==
    /\ variant = "rewoo" /\ pc = RewooEdge("solver")
    /\ state["solver_response"][1].summary = "llm summary"
    /\ state["solver_response"][1].fulfilled_count = 1

\* A ReWOO run on the default plan in which both tools have returned
BothToolsSucceeded ==
    /\ variant = "rewoo"
    /\ Has(state, "plan")
    /\ state["plan"][1] = _build_default_plan(state["metadata"][1], state["s3_pdf_paths"][1])
    /\ state["planning_reasoning"] = Some("Used deterministic fallback plan.")
    /\ EvHas(WorkerEvidence, "step_preconditions")
    /\ EvHas(WorkerEvidence, "step_conditions_ai")
    /\ EvGet(WorkerEvidence, "step_preconditions").kind = "prediction"
    /\ EvGet(WorkerEvidence, "step_conditions_ai").kind = "evaluation"

\* C17: a ReWOO run with no planner or solver model in which the prediction
\* and evaluation tools both succeed runs to its end, ends with status
\* 'completed' and with final_results whose fulfilled_count and
\* not_fulfilled_count are the numbers of fulfilled and not-fulfilled conditions
\* of the evaluation output and whose conditions list has that total length.
C17_FallbackRunCompletes ==
    BothToolsSucceeded =>
        LET conds == EvGet(WorkerEvidence, "step_conditions_ai").processed_conditions
            nf == Cardinality({i \in 1..Len(conds) : FulfilledStatus(conds[i])})
        IN  /\ pc # "aborted"
            /\ pc = "END" =>
                  /\ StatusIs("completed")
                  /\ state["final_results"][1].fulfilled_count = Some(nf)
                  /\ state["final_results"][1].not_fulfilled_count = Some(Len(conds) - nf)
                  /\ state["final_results"][1].conditions # Absent
                  /\ Len(state["final_results"][1].conditions[1]) = Len(conds)

\* C18: poll_until_complete returns normally only after a status check
\* reported 'success'; it raises a non-timeout error as soon as a status check
\* reports 'failed'; it raises the timeout error only when the wait budget is
\* exhausted and no check reported 'success' or 'failed'; a timeout is never
\* reported as a remote failure nor a remote failure as a timeout.
C18_PollOutcomes ==
    LET checks == client.checks
        n == Len(checks)
        final(i) == checks[i] \in {"success", "failed"}
    IN  /\ \A i \in 1..n : final(i) => i = n
        /\ client.poll = "returned" <=> (n > 0 /\ checks[n] = "success")
        /\ client.poll = "Exception" <=> (n > 0 /\ checks[n] = "failed")
        /\ client.poll = "Exception" =>
              client.result.kind = "raised" /\ client.result.error # "TimeoutError"
        /\ client.poll = "TimeoutError" =>
              /\ client.elapsed >= MaxWaitTicks
              /\ \A i \in 1..n : ~final(i)
              /\ client.result.kind = "raised" /\ client.result.error = "TimeoutError"
        /\ client.result.error = "TimeoutError" => client.poll = "TimeoutError"

C18_Witness ==
    client.poll = "TimeoutError" /\ Len(client.checks) >= 2

\* The last fetch attempt found no object and the fetch budget was used up
FetchBudgetExhausted ==
    /\ client.attempts # <<>>
    /\ client.attempts[Len(client.attempts)].result = "NoSuchKey"
    /\ client.attempts[Len(client.attempts)].elapsed >= MaxFetchTicks

\* C19: when the DAG run reached 'success' but the result object is still not
\* found when the fetch wait budget runs out, evaluate returns (does not raise)
\* a result with processing_status 'completed_no_relevant_documents' and an
\* empty processed_conditions list; when the DAG run failed or polling timed
\* out, evaluate raises and never returns that result.
C19_MissingResultIsNoDocs ==
    /\ (client.poll = "returned" /\ FetchBudgetExhausted) =>
          /\ client.pc = "done"
          /\ client.result.kind = "returned"
          /\ client.result.output.processing_status = NO_DOCS
          /\ client.result.output.processed_conditions = <<>>
    /\ client.poll \in {"Exception", "TimeoutError"} =>
          /\ client.pc = "done"
          /\ client.result.kind = "raised"
          /\ client.attempts = <<>>
    /\ client.result.source = "synthetic" =>
          client.poll = "returned" /\ FetchBudgetExhausted

C19_Witness ==
    /\ client.result.source = "synthetic" /\ Len(client.attempts) >= 2
    /\ Len(client.checks) >= 2

\* The transformation has been applied to the input held in fn_in and returned
TransformReturned == fn_in.fn = "transform" /\ fn_out # NoFn /\ fn_out[1].ok

\* C20 as stated: a prediction output with N deficiencies (N entries of
\* deficient_conditions) is transformed into exactly N condition entries with
\* ids 1..N in sequence, for every N >= 0 and every order of the input.
C20_OneEntryPerDeficiency ==
    TransformReturned =>
        LET deficient == fn_in.arg.cloud_output.deficient_conditions
            conditions == fn_out[1].conf.conditions
        IN  /\ Len(conditions) = Len(deficient)
            /\ \A i \in 1..Len(conditions) : conditions[i].id = i

\* C20 amended: the deficiencies are the entries of final_results.top_n when
\* that list is non-empty and the entries of deficient_conditions otherwise;
\* the transformation yields one condition entry per deficiency, in input
\* order, with ids 1..N in sequence, and raises only when the document path
\* does not parse.
C20_OneEntryPerChosenDeficiency ==
    (fn_in.fn = "transform" /\ fn_out # NoFn) =>
        LET out == fn_in.arg.cloud_output
            path == fn_in.arg.s3_pdf_path
            deficient == IF Len(out.top_n) > 0 THEN out.top_n ELSE out.deficient_conditions
            conditions == fn_out[1].conf.conditions
            slashes == {i \in 1..Len(path) : path[i] = "/"}
            valid == IF Len(path) >= 5 /\ SubSeq(path, 1, 5) = <<"s", "3", ":", "/", "/">>
                     THEN \E i \in slashes : i > 5
                     ELSE slashes # {}
        IN  /\ fn_out[1].ok <=> valid
            /\ fn_out[1].ok =>
                  /\ Len(conditions) = Len(deficient)
                  /\ \A i \in 1..Len(conditions) :
                        /\ conditions[i].id = i
                        /\ conditions[i].name = deficient[i].condition_id

C20_Witness ==
    /\ TransformReturned
    /\ fn_in.arg.cloud_output.top_n = <<>>
    /\ Len(fn_in.arg.cloud_output.deficient_conditions) >= 3
    /\ fn_in.arg.cloud_output.deficient_conditions[1].condition_id = "cond_b"
    /\ fn_in.arg.cloud_output.deficient_conditions[2].condition_id = "cond_a"

\* What the claim expects of a document path: the optional 's3://' prefix is
\* removed, and the rest is cut at its first '/'; found = FALSE when the rest
\* holds no '/'.
ExpectedParse(path) ==
    LET stripped == IF Len(path) >= 5 /\ SubSeq(path, 1, 5) = <<"s", "3", ":", "/", "/">>
                    THEN SubSeq(path, 6, Len(path)) ELSE path
        cuts == {i \in 1..Len(stripped) : stripped[i] = "/"}
        cut == CHOOSE i \in cuts : \A j \in cuts : i <= j
    IN  IF cuts = {} THEN [found |-> FALSE, bucket |-> <<>>, key |-> <<>>]
        ELSE [found |-> TRUE, bucket |-> SubSeq(stripped, 1, cut - 1),
              key |-> SubSeq(stripped, cut + 1, Len(stripped))]

\* C21: document-path parsing in both transforms splits on the first '/' only,
\* after removing an optional 's3://' prefix ('s3://b/d/k' and 'b/d/k' both give
\* bucket 'b' and key 'd/k'); a path with no '/', or with nothing left after
\* the prefix, raises the validation error and yields no bucket or key.
C21_PathParsing ==
    (fn_in.fn = "parse" /\ fn_out # NoFn) =>
        LET expected == ExpectedParse(fn_in.arg)
            both == {fn_out[1].preconditions, fn_out[1].metadata}
        IN  \A parsed \in both :
                /\ parsed.ok = expected.found
                /\ parsed.ok => parsed.bucket = expected.bucket /\ parsed.key = expected.key
                /\ ~parsed.ok => parsed.bucket = <<>> /\ parsed.key = <<>>

C21_Witness ==
    /\ fn_in.fn = "parse" /\ fn_out # NoFn
    /\ fn_in.arg = <<"s", "3", ":", "/", "/", "b", "/", "d", "/", "k">>
    /\ fn_out[1].preconditions.key = <<"d", "/", "k">>
    /\ fn_out[1].metadata.bucket = <<"b">>

\* C22: transform_metadata_to_conditions_ai fails with the validation error
\* (ValueError), producing no job payload, whenever the condition list is empty
\* or missing or some document path cannot be parsed; for every other input,
\* an empty document list included, it returns a payload or fails with that
\* same validation error.
C22_MetadataValidation ==
    (fn_in.fn = "transform_metadata" /\ fn_out # NoFn) =>
        LET a == fn_in.arg
            invalid == \/ a.metadata.conditions = <<>>
                       \/ \E i \in 1..Len(a.s3_pdf_paths) : ~ExpectedParse(a.s3_pdf_paths[i]).found
        IN  /\ invalid => fn_out[1].error = "ValueError"
            /\ fn_out[1].error \in {"", "ValueError"}
            /\ fn_out[1].error # "" => fn_out[1].conf = NoConf

(***************************************************************************)
(* Guardrails: validate_evaluations applied alone (SpecFn).  The rules are *)
(* restated here on the arguments of the call.                             *)
(***************************************************************************)
Validated == fn_in.fn = "validate" /\ fn_out # NoFn

CitesUnknownDocument(e, a) ==
    \E k \in 1..Len(e.citations) :
        \A j \in 1..Len(a.documents) : a.documents[j].document_id # e.citations[k]

ConfidenceRuleTrips(e) == e.confidence < 7000

HallucinationRuleTrips(e, a) ==
    /\ a.business_rules.require_citations
    /\ \/ e.result = "satisfied" /\ Len(e.citations) = 0
       \/ CitesUnknownDocument(e, a)

BusinessRuleTrips(e) ==
    \/ e.priority = <<"high">> /\ e.confidence < 8500
    \/ e.result = "uncertain" /\ e.reasoning = ""

SomeRuleTrips(e, a) ==
    ConfidenceRuleTrips(e) \/ HallucinationRuleTrips(e, a) \/ BusinessRuleTrips(e)

IssuesAbout(issues, i) ==
    SelectSeq(issues, LAMBDA issue : issue.condition_id = <<i>>)

CostIssues(issues) ==
    SelectSeq(issues, LAMBDA issue : issue.condition_id = <<>>)

MentionsConfidence(issue) ==
    \E k \in 1..Len(issue.validation_issues) :
        issue.validation_issues[k].text = "Low confidence"

C24_CostIsAdvisory ==
    Validated =>
        LET a == fn_in.arg
            out == fn_out[1]
            clean == \A i \in 1..Len(a.evaluations) : ~SomeRuleTrips(a.evaluations[i], a)
        IN  /\ a.cost_usd > 500 => Len(CostIssues(out.issues)) = 1
            /\ (a.cost_usd > 500 /\ clean)
                   => Len(out.issues) = 1 /\ ~out.requires_human_review
            /\ a.cost_usd <= 500 => Len(CostIssues(out.issues)) = 0

C24_Witness ==
    /\ Validated
    /\ fn_in.arg.cost_usd = 501
    /\ Len(fn_in.arg.evaluations) = 2
    /\ \A i \in 1..2 : ~SomeRuleTrips(fn_in.arg.evaluations[i], fn_in.arg)
    /\ Len(fn_out[1].issues) = 1
    /\ ~fn_out[1].requires_human_review

\* C25: an evaluation with a citation of a document that is not among the
\* supplied documents gets an issue of its own and review is asked for.
C25_UnknownCitationFlagged ==
    Validated =>
        \A i \in 1..Len(fn_in.arg.evaluations) :
            CitesUnknownDocument(fn_in.arg.evaluations[i], fn_in.arg)
                => /\ fn_out[1].requires_human_review
                   /\ Len(IssuesAbout(fn_out[1].issues, i)) = 1

\* C26: the evaluations validate_evaluations hands back are the evaluations
\* it was given, same elements, same order, same fields, whichever rules trip.
C26_EvaluationsUnchanged ==
    Validated =>
        /\ Len(fn_out[1].validated_evaluations) = Len(fn_in.arg.evaluations)
        /\ \A i \in 1..Len(fn_in.arg.evaluations) :
               fn_out[1].validated_evaluations[i] = fn_in.arg.evaluations[i]

C26_Witness ==
    /\ Validated
    /\ Len(fn_in.arg.evaluations) = 2
    /\ SomeRuleTrips(fn_in.arg.evaluations[1], fn_in.arg)
    /\ ~SomeRuleTrips(fn_in.arg.evaluations[2], fn_in.arg)
    /\ fn_in.arg.cost_usd = 501
    /\ fn_out[1].requires_human_review
    /\ Len(fn_out[1].validated_evaluations) = 2

Formatted == fn_in.fn = "format" /\ fn_out # NoFn

\* C27: the confidence tier is 'green' from 0.8 up, 'yellow' from 0.5 up to
\* but not including 0.8, 'red' below 0.5; a condition without a confidence
\* has confidence 0 and is 'red'; 0.8 is 'green', 0.5 'yellow', 0.4999 'red';
\* every condition gets exactly one of the three tiers.
C27_ConfidenceTiers ==
    Formatted =>
        LET c == fn_in.arg.condition
            given == "confidence" \in DOMAIN c
            color == fn_out[1].confidence_color
        IN  /\ color \in {"green", "yellow", "red"}
            /\ given => /\ color = "green" <=> c.confidence >= 8000
                        /\ color = "yellow" <=> (5000 <= c.confidence /\ c.confidence < 8000)
                        /\ color = "red" <=> c.confidence < 5000
                        /\ fn_out[1].confidence = c.confidence
            /\ (given /\ c.confidence = 8000) => color = "green"
            /\ (given /\ c.confidence = 5000) => color = "yellow"
            /\ (given /\ c.confidence = 4999) => color = "red"
            /\ ~given => color = "red" /\ fn_out[1].confidence = 0

C27_Witness ==
    /\ Formatted
    /\ "confidence" \in DOMAIN fn_in.arg.condition
    /\ fn_in.arg.condition.confidence = 4999
    /\ fn_out[1].confidence_color = "red"

(***************************************************************************)
(* State fields and the order of the steps.                                *)
(***************************************************************************)
\* The per-stage fields a step takes from the state
StageFieldsRead(graph, node) ==
    CASE graph = "linear" /\ node = "transform_output" -> {"preconditions_output"}
      [] graph = "linear" /\ node = "call_conditions_ai" -> {"transformed_input"}
      [] graph = "linear" /\ node = "classify_results" -> {"conditions_ai_output"}
      [] graph = "linear" /\ node = "store_results" -> {"conditions_ai_output"}
      [] graph = "rewoo" /\ node = "worker" -> {"plan"}
      [] graph = "rewoo" /\ node = "solver" -> {"plan", "evidence"}
      [] graph = "rewoo" /\ node = "store_results" -> {"plan", "evidence", "solver_response"}
      [] OTHER -> {}

\* C28: when a step of either workflow is about to run, every per-stage field
\* it reads has been written by a step before it, also when that step
\* returned a failure delta.
C28_ReadAfterWrite ==
    variant \in {"linear", "rewoo"} =>
        \A k \in StageFieldsRead(variant, pc) : Has(state, k)

\* C29: the evidence log lists the executed steps in plan order (it is a
\* prefix of the plan, the whole plan once the worker has completed), it only
\* grows by appending, and the keys of the evidence map are the step ids of
\* the log, each with the output of the last entry of that id.
C29_EvidenceLogFollowsPlan ==
    [][ /\ IsPrefix(WorkerLog, WorkerLog')
        /\ (variant = "rewoo" /\ Has(state', "evidence_log")) =>
              LET plan == state'["plan"][1].steps
                  log == state'["evidence_log"][1]
                  evidence == state'["evidence"][1]
              IN  /\ Len(log) <= Len(plan)
                  /\ \A i \in 1..Len(log) : /\ log[i].step_id = plan[i].id
                                            /\ log[i].tool = plan[i].tool
                  /\ state'["stage"] = Some("worker_complete") => Len(log) = Len(plan)
                  /\ EvKeys(evidence) = {log[i].step_id : i \in 1..Len(log)}
                  /\ RecordedBy(evidence, log, Len(log)) ]_vars

C29_Witness ==
    /\ variant = "rewoo"
    /\ state["stage"] = Some("worker_complete")
    /\ Len(WorkerPlan) = 2
    /\ Len(WorkerLog) = 2
    /\ WorkerLog[1].tool # WorkerLog[2].tool
    /\ WorkerLog[1].step_id # WorkerLog[2].step_id

ClosedToolSet ==
    {"call_preconditions_api", "call_conditions_ai_api", "retrieve_s3_document",
     "query_database"}

\* C30 as claimed: every step of the plan the planner wrote has a tool of the
\* closed set.
C30_ClosedToolSet ==
    (variant = "rewoo" /\ Has(state, "plan")) =>
        \A i \in 1..Len(WorkerPlan) : WorkerPlan[i].tool \in ClosedToolSet

\* C30: every step of the plan the planner wrote names a tool; the worker
\* executes the tools of the closed set only, and the evidence of a step that
\* names any other tool is the 'skipped' record.
C30_UnknownToolSkipped ==
    (variant = "rewoo" /\ Has(state, "plan")) =>
        /\ \A i \in 1..Len(WorkerPlan) : WorkerPlan[i].tool # ""
        /\ \A i \in 1..Len(WorkerLog) :
               WorkerLog[i].tool \notin ClosedToolSet <=> WorkerLog[i].output = Skipped

C30_Witness ==
    /\ variant = "rewoo"
    /\ state["stage"] = Some("worker_complete")
    /\ \E i \in 1..Len(WorkerLog) :
           /\ WorkerLog[i].tool = "send_email"
           /\ WorkerLog[i].output = Skipped
           /\ EvGet(WorkerEvidence, WorkerLog[i].step_id) = Skipped

(***************************************************************************)
(* Plan normalization (planner_node applied alone, SpecFn).                *)
(***************************************************************************)
\* The positions of the answer's entries that are objects naming a tool
KeptPositions(response) ==
    SelectSeq([i \in 1..Len(response.steps) |-> i],
              LAMBDA i : response.steps[i].is_dict /\ response.steps[i].tool # <<>>)

\* The plan is the normalization of the answer's kept entries
NormalizedFrom(plan, response) ==
    LET kept == KeptPositions(response)
    IN  /\ Len(plan.steps) = Len(kept)
        /\ \A k \in 1..Len(kept) :
              LET raw == response.steps[kept[k]]
                  step == plan.steps[k]
              IN  /\ step.tool = raw.tool[1]
                  /\ step.description = raw.description
                  /\ step.id # ""
                  /\ raw.id # <<>> => step.id = raw.id[1]
                  /\ raw.id = <<>> => step.id = StepIdNames[kept[k]]
                  /\ step.tool = "call_conditions_ai_api" =>
                        /\ step.input["documents"] # <<>>
                        /\ step.input["from_step"] # <<>>
                        /\ raw.input["documents"] = <<>>
                              => step.input["documents"] = state["s3_pdf_paths"]
                        /\ raw.input["documents"] # <<>>
                              => step.input["documents"] = raw.input["documents"]
                        /\ raw.input["from_step"] = <<>>
                              => step.input["from_step"]
                                     = <<[is_int |-> FALSE, text |-> "step_preconditions"]>>
                        /\ raw.input["from_step"] # <<>>
                              => step.input["from_step"] = raw.input["from_step"]

\* A kept entry of one of the two main tools whose input is not an object
KeptInputNotObject(response) ==
    \E i \in 1..Len(response.steps) :
        /\ response.steps[i].is_dict
        /\ response.steps[i].tool \in {<<"call_preconditions_api">>, <<"call_conditions_ai_api">>}
        /\ ~response.steps[i].input_is_dict

\* C31 as claimed: for an answer with a steps list of which some entry is
\* kept, the plan is the kept entries in order, with ids and evaluate-step
\* defaults filled in.
C31_NormalizedPlan ==
    ( /\ Planned /\ fn_in.arg.has_llm /\ fn_in.arg.response.kind = "steps"
      /\ KeptPositions(fn_in.arg.response) # <<>> )
        => NormalizedFrom(PlannedPlan, fn_in.arg.response)

\* C31: the same, unless a kept entry of call_preconditions_api or
\* call_conditions_ai_api has an input that is not an object: then the
\* normalization raises and the plan is the default plan.
C31_NormalizedPlanOrFallback ==
    ( /\ Planned /\ fn_in.arg.has_llm /\ fn_in.arg.response.kind = "steps"
      /\ KeptPositions(fn_in.arg.response) # <<>> )
        => IF KeptInputNotObject(fn_in.arg.response)
           THEN /\ state["planning_reasoning"] = <<"Used deterministic fallback plan.">>
                /\ Len(PlannedPlan.steps) = 2
                /\ PlannedPlan.steps[1].id = "step_preconditions"
                /\ PlannedPlan.steps[2].id = "step_conditions_ai"
           ELSE NormalizedFrom(PlannedPlan, fn_in.arg.response)

C31_Witness ==
    /\ Planned /\ fn_in.arg.has_llm /\ fn_in.arg.response.kind = "steps"
    /\ Len(fn_in.arg.response.steps) = 2
    /\ ~fn_in.arg.response.steps[1].is_dict
    /\ fn_in.arg.response.steps[2].tool = <<"call_conditions_ai_api">>
    /\ fn_in.arg.response.steps[2].input["from_step"] = <<>>
    /\ Len(PlannedPlan.steps) = 1
    /\ PlannedPlan.steps[1].id = "step_2"
    /\ PlannedPlan.steps[1].input["documents"] = state["s3_pdf_paths"]

(***************************************************************************)
(* fetch_s3_results within evaluate (SpecClient).                          *)
(***************************************************************************)
\* fetch_s3_results has been called
FetchCalled == client.poll = "returned"

\* C32: fetch_s3_results tries again only after 'not found' within its wait
\* budget, at least one poll interval after the attempt before; 'not found'
\* with the budget used up ends the call with the not-found error (which
\* evaluate turns into the no-relevant-documents result); any other storage
\* error ends the call with that error at its first occurrence; a path that
\* does not parse ends it with ValueError before any attempt.
C32_RetryOnlyOnNotFound ==
    FetchCalled =>
        LET tries == client.attempts
            n == Len(tries)
        IN  /\ \A i \in 1..(n - 1) :
                  /\ tries[i].result = "NoSuchKey"
                  /\ tries[i].elapsed < MaxFetchTicks
                  /\ tries[i + 1].elapsed >= tries[i].elapsed + PollInterval
            /\ (client.pc = "fetch" /\ n > 0) =>
                  tries[n].result = "NoSuchKey" /\ tries[n].elapsed < MaxFetchTicks
            /\ (client.pc = "done" /\ n > 0) =>
                  CASE tries[n].result = "found" ->
                          client.result.kind = "returned" /\ client.result.source = "s3"
                    [] tries[n].result = "NoSuchKey" ->
                          /\ tries[n].elapsed >= MaxFetchTicks
                          /\ client.result.kind = "returned"
                          /\ client.result.source = "synthetic"
                    [] OTHER ->
                          /\ client.result.kind = "raised"
                          /\ client.result.error = tries[n].result
            /\ (client.pc = "done" /\ n = 0) =>
                  /\ ~HasSlash(client.output_destination)
                  /\ client.result.kind = "raised"
                  /\ client.result.error = "ValueError"
            /\ ~HasSlash(client.output_destination) => n = 0

C32_Witness ==
    /\ FetchCalled /\ client.pc = "done"
    /\ Len(client.attempts) = 2
    /\ client.attempts[1].result = "NoSuchKey"
    /\ client.attempts[2].result = "ClientError"
    /\ client.result.error = "ClientError"

(***************************************************************************)
(* No retries in the engine; one trigger per evaluate call                 *)
(* (SpecEngineAndClient).                                                  *)
(***************************************************************************)
\* C33: in one evaluate call the DAG is triggered once, before any status
\* check; the result fetch starts only after a status check reported
\* 'success'; status checks and fetch retries never trigger it again; and no
\* step of a graph is invoked a second time in a run, failed or not.
C33_NoRetrigger ==
    /\ client.triggers <= 1
    /\ client.triggers = 0 => client.checks = <<>> /\ client.attempts = <<>>
    /\ client.pc \in {"poll", "fetch"} => client.triggers = 1
    /\ (client.pc = "fetch" \/ client.attempts # <<>>) =>
          /\ client.checks # <<>>
          /\ client.checks[Len(client.checks)] = "success"
    /\ \A i \in 1..Len(client.checks) :
          client.checks[i] = "success" => i = Len(client.checks)
    /\ \A i, j \in 1..Len(executed) : executed[i] = executed[j] => i = j

C33_Witness ==
    /\ client.pc = "done"
    /\ client.triggers = 1
    /\ Len(client.checks) = 3
    /\ client.checks[1] = "running"
    /\ Len(client.attempts) = 2

(***************************************************************************)
(* Termination of poll_until_complete (SpecClient).                        *)
(***************************************************************************)
\* C34: poll_until_complete ends after a bounded number of status checks,
\* whatever states they report: check k+1 is made only while the time slept
\* after the first k-1 checks is below the wait budget, so there are never
\* more checks than the budget holds poll intervals, plus one; when no check
\* raised it ends in success, remote failure or timeout, after at least one
\* check.
C34_PollTerminates ==
    /\ (Len(client.checks) - 1) * PollInterval <= MaxWaitTicks
    /\ (client.pc # "poll" /\ client.triggers = 1 /\ client.poll # "HTTPError"
        /\ client.result.error # "TriggerError") =>
          /\ client.poll \in {"returned", "Exception", "TimeoutError"}
          /\ client.checks # <<>>
    /\ client.poll = "TimeoutError" =>
          \A i \in 1..Len(client.checks) : client.checks[i] \notin {"success", "failed"}

C34_Witness ==
    /\ client.poll = "TimeoutError"
    /\ (Len(client.checks) - 1) * PollInterval = MaxWaitTicks
    /\ \E i \in 1..Len(client.checks) : client.checks[i] = "unknown"

\* The plan a run that fell back must hold: the template as the module defines
\* it, with the run's own metadata and documents filled in.
OwnDefaultPlan(arguments) ==
    [summary |-> Some("Predict conditions using PreConditions then evaluate with Conditions AI."),
     steps |-> << [PlanTemplate[1] EXCEPT
                      !.input = Payload([metadata |-> arguments.metadata])],
                  [PlanTemplate[2] EXCEPT
                      !.input = Payload([from_step |-> FromStepStr("step_preconditions"),
                                         documents |-> arguments.s3_pdf_paths])] >>]

FellBack(run) ==
    run.state["planning_reasoning"] = Some("Used deterministic fallback plan.")

\* What a run holds is its own: the arguments of its call, the pristine
\* template filled with them when it fell back, evidence of its own plan only.
RunHoldsItsOwn(run) ==
    /\ run.state["metadata"] = Some(run.arguments.metadata)
    /\ run.state["s3_pdf_paths"] = Some(run.arguments.s3_pdf_paths)
    /\ FellBack(run) => run.state["plan"] = Some(OwnDefaultPlan(run.arguments))
    /\ Has(run.state, "evidence") =>
          EvKeys(run.state["evidence"][1])
             \subseteq {run.state["plan"][1].steps[k].id :
                           k \in 1..Len(run.state["plan"][1].steps)}

\* C35: runs interleaved at their await points do not affect one another: a
\* step of one run leaves every other run's state, evidence and plan as they
\* were, the module-level template DEFAULT_PLAN_STEPS is never modified, and
\* every run that falls back holds the pristine two-step template filled with
\* its own metadata and documents.
C35_RunsIsolated ==
    /\ [](DEFAULT_PLAN_STEPS = PlanTemplate)
    /\ [](\A i \in DOMAIN runs : RunHoldsItsOwn(runs[i]))
    /\ [][\E i \in DOMAIN runs : \A j \in DOMAIN runs \ {i} : runs'[j] = runs[j]]_vars

\* Both runs fell back and sit at different nodes, the first with evidence
\* collected, the second planned after it and not yet run by the worker.
C35_Witness ==
    /\ variant = "concurrent"
    /\ FellBack(runs[1]) /\ FellBack(runs[2])
    /\ runs[1].pc = "solver" /\ runs[2].pc = "worker"
    /\ Len(runs[1].state["evidence_log"][1]) = 2
    /\ runs[1].state["plan"] # runs[2].state["plan"]


\* The condition ids of a list of deficiencies, in order.
DeficiencyIds(l) == [i \in 1..Len(l) |-> l[i].condition_id]

\* C36: the condition list is built from final_results.top_n whenever that
\* list is present and non-empty, whatever deficient_conditions holds, and
\* from deficient_conditions only when top_n is absent or empty; the result
\* never holds entries of both lists.
C36_TopNOrDeficientConditions ==
    TransformReturned =>
        LET out == fn_in.arg.cloud_output
            built == [i \in 1..Len(fn_out[1].conf.conditions) |->
                         fn_out[1].conf.conditions[i].name]
        IN  /\ out.top_n # <<>> => built = DeficiencyIds(out.top_n)
            /\ out.top_n = <<>> => built = DeficiencyIds(out.deficient_conditions)

\* Both lists are present and differ; the result is the top_n list alone.
C36_Witness ==
    /\ TransformReturned
    /\ DeficiencyIds(fn_in.arg.cloud_output.top_n) = <<"cond_b">>
    /\ DeficiencyIds(fn_in.arg.cloud_output.deficient_conditions) = <<"cond_a", "cond_a">>
    /\ Len(fn_out[1].conf.conditions) = 1
    /\ fn_out[1].conf.conditions[1].name = "cond_b"


IsPrefixOf(a, b) == Len(a) <= Len(b) /\ SubSeq(b, 1, Len(a)) = a

\* The per-stage output fields of the two workflows.
StageOutputFields ==
    {"preconditions_output", "transformed_input", "conditions_ai_output",
     "fulfilled_conditions", "not_fulfilled_conditions", "plan", "solver_response"}

\* C37: once a step has written a per-stage output field, no later step of
\* the run removes it or changes its value; node_outputs and the evidence log
\* only grow, by appending at the end.
C37_StageOutputsKept ==
    [][/\ \A f \in StageOutputFields : Has(state, f) => state'[f] = state[f]
       /\ IsPrefixOf(Get(state, "node_outputs", <<>>), Get(state', "node_outputs", <<>>))
       /\ IsPrefixOf(Get(state, "evidence_log", <<>>), Get(state', "evidence_log", <<>>))]_vars

\* A linear run has ended with every stage field written and one node_outputs
\* entry per completed node.
C37_Witness ==
    /\ variant = "linear" /\ pc = "END"
    /\ \A f \in StageOutputFields \ {"plan", "solver_response"} : Has(state, f)
    /\ Len(state["node_outputs"][1]) = Len(completed)
    /\ Len(completed) >= 6


\* C38: the step ids of a plan returned by planner_node are pairwise distinct,
\* so that once worker_node has completed without error the evidence map
\* holds one entry per executed plan step: the size of the evidence map, the
\* length of the evidence log and the number of plan steps are equal, and no
\* step's output has overwritten another's.
C38_DistinctStepIds ==
    (variant = "rewoo" /\ Has(state, "plan")) =>
        LET steps == state["plan"][1].steps
        IN  /\ \A i, j \in 1..Len(steps) : steps[i].id = steps[j].id => i = j
            /\ (Has(state, "evidence") /\ ~Has(state, "error")) =>
                  /\ Len(state["evidence"][1]) = Len(state["evidence_log"][1])
                  /\ Len(state["evidence_log"][1]) = Len(steps)
                  /\ \A k \in 1..Len(steps) :
                        EvGet(state["evidence"][1], steps[k].id)
                           = state["evidence_log"][1][k].output


\* A transform has returned a payload whose output destination it generated.
DestinationGenerated ==
    /\ fn_out # NoFn
    /\ \/ fn_in.fn = "transform" /\ fn_out[1].ok
       \/ /\ fn_in.fn = "transform_metadata" /\ fn_out[1].error = ""
          /\ fn_in.arg.output_destination = Absent

\* C39: the output destination generated by either transform is accepted by
\* the path parsing of fetch_s3_results and resolves there to the bucket of
\* the (first) input document, with a non-empty key.
C39_DestinationFetchable ==
    DestinationGenerated =>
        LET conf == fn_out[1].conf
            fetched == fetch_s3_path(conf.output_destination)
        IN  /\ fetched.ok
            /\ fetched.bucket = conf.s3_pdf_paths[1].bucket
            /\ fetched.key # <<>>

\* The document path names the scheme twice, so the bucket reads "s3:", and
\* the destination generated under it is fetched from that bucket.
C39_Witness ==
    /\ DestinationGenerated
    /\ fn_out[1].conf.s3_pdf_paths[1].bucket = <<"s", "3", ":">>
    /\ fetch_s3_path(fn_out[1].conf.output_destination).bucket = <<"s", "3", ":">>


\* The linear streaming run has been drained: the generator has ended.
LinearStreamDrained ==
    variant = "linear" /\ mode = "stream" /\ pc \in {"END", "aborted"}

\* C40: a linear streaming run drained to the end has produced an event
\* sequence whose last event is either the store_results step event or one
\* event with node 'error' and status 'failed'; an error event is emitted at
\* most once and no event follows it.
C40_StreamEndsInStoreOrError ==
    (variant = "linear" /\ mode = "stream") =>
        /\ \A i \in 1..Len(events) :
              events[i].node = "error" =>
                 i = Len(events) /\ events[i].status = Some("failed") /\ pc = "aborted"
        /\ LinearStreamDrained =>
              /\ events # <<>>
              /\ IF pc = "END"
                 THEN /\ events[Len(events)].node = "store_results"
                      /\ events[Len(events)].status = Some("completed")
                 ELSE events[Len(events)].node = "error"

\* A step reported failure, the run went on, a later step raised: the stream
\* ends with the one error event after three step events.
C40_Witness ==
    /\ LinearStreamDrained /\ pc = "aborted"
    /\ Len(events) = 4
    /\ events[3].state_status = Some("failed")
    /\ events[4].node = "error"
    /\ \A i \in 1..3 : events[i].node # "error"


====
